---- MODULE Spec2Model ----
(***************************************************************************)
(* A model of the sqlx repository: the templated-SQL compiler and          *)
(* validator (packages/core, sql-parser), the type generator               *)
(* (packages/schema, type-generator) and the identifier casing rule of the *)
(* schema introspector (packages/schema, introspector).                    *)
(*                                                                         *)
(* A JavaScript string is modelled as a sequence of one-character strings, *)
(* so that every regular-expression pass of the code is computed character *)
(* by character.                                                           *)
(***************************************************************************)
EXTENDS Integers, Sequences, FiniteSets, TLC

VARIABLES
  comp,        \* the component under exercise: "compile", "validate", ...
  pc,          \* position of the caller: "start", then the call that was made
  strings,     \* parseSqlTemplate / sql: the literal segments
  values,      \* parseSqlTemplate / sql: the interleaved values
  normalize,   \* parseSqlTemplate: options.normalizeWhitespace
  parsed,      \* the ParsedQuery returned by parseSqlTemplate (or held by the query)
  sqlIn,       \* validateSql: the sql argument
  skipCheck,   \* validateSql: options.skipDangerousPatternCheck
  validation,  \* validateSql: the returned {valid, errors}
  typeOverrides,  \* TypeGenerator: the typeMapping argument of the constructor
  typeMapping,    \* TypeGenerator: this.typeMapping
  snowflakeType,  \* mapType: the snowflakeType argument
  mappedType,     \* mapType: the returned type
  tables,         \* generate: the TableInfo rows
  columns,        \* generate: the ColumnInfo rows
  interfaces,     \* generate: the GeneratedInterface list
  iface,          \* generateInterfaceCode: the iface argument
  code,           \* generateInterfaceCode / generateFile: the returned text
  config,         \* getTables: the IntrospectionConfig argument
  colArgs,        \* getColumns: the arguments database, schema, tables
  issued,         \* the queries handed to connection.execute, in order
  tablesResult,   \* getTables: the rows it resolved to
  columnsResult,  \* getColumns / getAllColumns: the rows it resolved to
  connected,      \* SnowflakeConnection: this.connection is set
  executed,       \* the number of connection.execute calls that resolved
  tableRows,      \* result.rows of the table query
  columnRows,     \* result.rows of each column query, in order
  tablesBySchema, \* getAllColumns: the Map from schema to table names
  schemaIdx,      \* getAllColumns: the entry of tablesBySchema being fetched
  allColumns,     \* getAllColumns: the accumulator
  thrown,         \* the error connection.execute rejected with
  rejection,      \* the error the introspection call rejected with
  testResult,     \* testConnection: the boolean it resolved to
  matchName,      \* matchPattern: the value argument
  matchGlob,      \* matchPattern: the pattern argument
  matchResult,    \* matchPattern: the boolean it returned
  globalConnection, \* connection.ts: the module's globalConnection (0: null)
  queryError,     \* the error the sql tag or SqlQuery.execute threw last
  shown,          \* SqlQuery.toSQL: the ParsedQuery it returned last
  calls,          \* the number of calls the caller has made
  sent,           \* the calls made to the global connection's execute
  opened,         \* a connect() has succeeded and no close() has since
  driverLog,      \* the calls made to the snowflake-sdk driver, in order
  lastCall,       \* the last call made, with what it did
  closeCalls,     \* generate: the number of connection.close() calls
  written,        \* generate: the interfaces of the file written
  events,         \* the calls made and how they settled, in order
  pending         \* configureConnection: the connections being connected

sqlVars == <<strings, values, normalize, parsed, sqlIn, skipCheck, validation>>
genVars == <<typeOverrides, typeMapping, snowflakeType, mappedType, tables,
             columns, interfaces, iface, code>>
introVars == <<config, colArgs, issued, tablesResult, columnsResult, connected,
               executed, tableRows, columnRows, tablesBySchema, schemaIdx,
               allColumns, thrown, rejection, testResult, matchName,
               matchGlob, matchResult>>
matchVars == <<matchName, matchGlob, matchResult>>
queryVars == <<queryError, shown, sent>>
lifeVars == <<opened, driverLog>>
cmdVars == <<closeCalls, written>>
globalVars == <<events, pending>>
connVars == <<globalConnection, calls, lastCall, queryVars, lifeVars, cmdVars,
              globalVars>>

----------------------------------------------------------------------------
(* Characters and the String.prototype operations the code uses.           *)

LowerLetters == <<"a", "b", "c", "d", "e", "f", "g", "h", "i", "j", "k", "l", "m", "n", "o", "p", "q", "r", "s", "t", "u", "v", "w", "x", "y", "z">>
UpperLetters == <<"A", "B", "C", "D", "E", "F", "G", "H", "I", "J", "K", "L", "M", "N", "O", "P", "Q", "R", "S", "T", "U", "V", "W", "X", "Y", "Z">>
Digits == <<"0", "1", "2", "3", "4", "5", "6", "7", "8", "9">>

Range(f) == {f[i] : i \in DOMAIN f}

LowerSet == Range(LowerLetters)
UpperSet == Range(UpperLetters)
DigitSet == Range(Digits)

\* String.prototype.toUpperCase, one character
ToUpperChar(c) ==
  IF c \in LowerSet
  THEN UpperLetters[CHOOSE i \in 1..26 : LowerLetters[i] = c]
  ELSE c

\* String.prototype.toLowerCase, one character
ToLowerChar(c) ==
  IF c \in UpperSet
  THEN LowerLetters[CHOOSE i \in 1..26 : UpperLetters[i] = c]
  ELSE c

ToUpperCase(s) == [i \in 1..Len(s) |-> ToUpperChar(s[i])]
ToLowerCase(s) == [i \in 1..Len(s) |-> ToLowerChar(s[i])]

\* the regular-expression class \s (and the characters trim() removes)
IsSpace(c) == c \in {" ", "\n", "\t"}

\* the regular-expression class [a-zA-Z0-9_]
IsWordChar(c) == c \in LowerSet \cup UpperSet \cup DigitSet \cup {"_"}

\* the first index >= i of s that holds no whitespace (Len(s)+1 when none)
RECURSIVE SkipSpaces(_, _)
SkipSpaces(s, i) ==
  IF i <= Len(s) /\ IsSpace(s[i]) THEN SkipSpaces(s, i + 1) ELSE i

RECURSIVE TrimStart(_)
TrimStart(s) ==
  IF s # <<>> /\ IsSpace(Head(s)) THEN TrimStart(Tail(s)) ELSE s

RECURSIVE TrimEnd(_)
TrimEnd(s) ==
  IF s # <<>> /\ IsSpace(s[Len(s)])
  THEN TrimEnd(SubSeq(s, 1, Len(s) - 1))
  ELSE s

\* String.prototype.trim
Trim(s) == TrimEnd(TrimStart(s))

\* whether the upper-case word w stands in s at index i, ignoring letter case
\* (a literal of a regular expression with the i flag)
MatchesAt(s, i, w) ==
  /\ i >= 1
  /\ i + Len(w) - 1 <= Len(s)
  /\ \A k \in 1..Len(w) : ToUpperChar(s[i + k - 1]) = w[k]

----------------------------------------------------------------------------
(* sql-parser: parseSqlTemplate                                            *)

\* a variant that interpolates the value's text instead of binding it
PlaceholderInlined(value) == value.text

\* the token appended for one interleaved value: sql += '?'
Placeholder(value) == <<"?">>

\* a variant whose loop test is i < values.length - 1: the last value is lost
RECURSIVE InterleaveFromOffByOne(_, _, _, _, _)
InterleaveFromOffByOne(strs, vals, i, sql, params) ==
  IF i > Len(strs)
  THEN [sql |-> sql, params |-> params]
  ELSE IF i < Len(vals)
       THEN InterleaveFromOffByOne(strs, vals, i + 1,
                                   sql \o strs[i] \o <<"?">>,
                                   Append(params, vals[i]))
       ELSE InterleaveFromOffByOne(strs, vals, i + 1, sql \o strs[i], params)

\* a variant that uses params.unshift: the values come out reversed
RECURSIVE InterleaveFromUnshift(_, _, _, _, _)
InterleaveFromUnshift(strs, vals, i, sql, params) ==
  IF i > Len(strs)
  THEN [sql |-> sql, params |-> params]
  ELSE IF i <= Len(vals)
       THEN InterleaveFromUnshift(strs, vals, i + 1,
                                  sql \o strs[i] \o <<"?">>,
                                  <<vals[i]>> \o params)
       ELSE InterleaveFromUnshift(strs, vals, i + 1, sql \o strs[i], params)

\* the interleaving loop of parseSqlTemplate, from index i on
RECURSIVE InterleaveFrom(_, _, _, _, _)
InterleaveFrom(strs, vals, i, sql, params) ==
  IF i > Len(strs)
  THEN [sql |-> sql, params |-> params]
  ELSE IF i <= Len(vals)
       THEN InterleaveFrom(strs, vals, i + 1,
                           sql \o strs[i] \o Placeholder(vals[i]),
                           Append(params, vals[i]))
       ELSE InterleaveFrom(strs, vals, i + 1, sql \o strs[i], params)

\* .replace(/\s+/g, ' ')
RECURSIVE CollapseFrom(_, _)
CollapseFrom(s, i) ==
  IF i > Len(s) THEN <<>>
  ELSE IF IsSpace(s[i])
       THEN <<" ">> \o CollapseFrom(s, SkipSpaces(s, i))
       ELSE <<s[i]>> \o CollapseFrom(s, i + 1)

CollapseWhitespace(s) == CollapseFrom(s, 1)

\* .replace(/\s*c\s*/g, repl) for a single character c, scanning from index i:
\* a match starts at i when the whitespace run at i is followed by c, and
\* takes the whitespace after c as well
RECURSIVE ReplaceAroundFrom(_, _, _, _)
ReplaceAroundFrom(s, c, repl, i) ==
  IF i > Len(s) THEN <<>>
  ELSE LET j == SkipSpaces(s, i) IN
       IF j <= Len(s) /\ s[j] = c
       THEN repl \o ReplaceAroundFrom(s, c, repl, SkipSpaces(s, j + 1))
       ELSE <<s[i]>> \o ReplaceAroundFrom(s, c, repl, i + 1)

\* .replace(/\s*,\s*/g, ', ')
ReplaceCommas(s) == ReplaceAroundFrom(s, ",", <<",", " ">>, 1)

\* a variant that replaces /\(\s*/g: the whitespace before '(' is kept
RECURSIVE OpenParensInsideFrom(_, _)
OpenParensInsideFrom(s, i) ==
  IF i > Len(s) THEN <<>>
  ELSE IF s[i] = "("
       THEN <<"(">> \o OpenParensInsideFrom(s, SkipSpaces(s, i + 1))
       ELSE <<s[i]>> \o OpenParensInsideFrom(s, i + 1)

ReplaceOpenParensInside(s) == OpenParensInsideFrom(s, 1)

\* .replace(/\s*\(\s*/g, '(')
ReplaceOpenParens(s) == ReplaceAroundFrom(s, "(", <<"(">>, 1)

\* .replace(/\s*\)\s*/g, ')')
ReplaceCloseParens(s) == ReplaceAroundFrom(s, ")", <<")">>, 1)

\* the clean-up of parseSqlTemplate under normalizeWhitespace
NormalizeSql(s) ==
  ReplaceCloseParens(ReplaceOpenParens(ReplaceCommas(CollapseWhitespace(Trim(s)))))

----------------------------------------------------------------------------
(* sql-parser: extractMetadata.  A failed match is <<>>, a successful one  *)
(* is the one-element sequence holding its capture group.                  *)

KwFrom == <<"F", "R", "O", "M">>
KwSelect == <<"S", "E", "L", "E", "C", "T">>
KwAs == <<"A", "S">>

\* the class [a-zA-Z0-9_.] of the FROM pattern
IsTableChar(c) == IsWordChar(c) \/ c = "."

\* the end (exclusive) of the run of characters satisfying the class at i
RECURSIVE TableRunEnd(_, _)
TableRunEnd(s, i) ==
  IF i <= Len(s) /\ IsTableChar(s[i]) THEN TableRunEnd(s, i + 1) ELSE i

RECURSIVE WordRunEnd(_, _)
WordRunEnd(s, i) ==
  IF i <= Len(s) /\ IsWordChar(s[i]) THEN WordRunEnd(s, i + 1) ELSE i

\* sql.match(/FROM\s+([a-zA-Z0-9_.]+)/i): the leftmost start i >= from
RECURSIVE FromMatch(_, _)
FromMatch(s, i) ==
  IF i > Len(s) THEN <<>>
  ELSE LET j == SkipSpaces(s, i + 4) IN
       IF /\ MatchesAt(s, i, KwFrom)
          /\ j > i + 4
          /\ TableRunEnd(s, j) > j
       THEN <<SubSeq(s, j, TableRunEnd(s, j) - 1)>>
       ELSE FromMatch(s, i + 1)

\* the lazy (.*?) of the SELECT pattern, begun at index b: the least end e >= b
\* (exclusive) at which \s+FROM matches; 0 when there is none
RECURSIVE LazyEnd(_, _, _)
LazyEnd(s, b, e) ==
  IF e > Len(s) THEN 0
  ELSE IF IsSpace(s[e]) /\ MatchesAt(s, SkipSpaces(s, e), KwFrom)
       THEN e
       ELSE LazyEnd(s, b, e + 1)

\* the greedy \s+ after SELECT, taking w characters from index a and giving back
\* one character at a time
RECURSIVE SelectAfterSpaces(_, _, _)
SelectAfterSpaces(s, a, w) ==
  IF w < 1 THEN <<>>
  ELSE LET b == a + w
           e == LazyEnd(s, b, b)
       IN IF e # 0 THEN <<SubSeq(s, b, e - 1)>>
          ELSE SelectAfterSpaces(s, a, w - 1)

\* sql.match(/SELECT\s+(.*?)\s+FROM/is): the leftmost start i
RECURSIVE SelectMatch(_, _)
SelectMatch(s, i) ==
  IF i > Len(s) THEN <<>>
  ELSE LET a == i + 6
           m == IF MatchesAt(s, i, KwSelect)
                THEN SelectAfterSpaces(s, a, SkipSpaces(s, a) - a)
                ELSE <<>>
       IN IF m # <<>> THEN m ELSE SelectMatch(s, i + 1)

\* String.prototype.split(',')
RECURSIVE SplitComma(_, _, _)
SplitComma(s, i, cur) ==
  IF i > Len(s) THEN <<cur>>
  ELSE IF s[i] = ","
       THEN <<cur>> \o SplitComma(s, i + 1, <<>>)
       ELSE SplitComma(s, i + 1, Append(cur, s[i]))

IsQuoteChar(c) == c \in {"\"", "'"}

\* ["']?\s*$ at index q
AliasTail(col, q) ==
  \/ /\ q <= Len(col) /\ IsQuoteChar(col[q])
     /\ SkipSpaces(col, q + 1) > Len(col)
  \/ SkipSpaces(col, q) > Len(col)

\* ([a-zA-Z0-9_]+)["']?\s*$ at index q: the greedy run is the only length
\* that can be followed by the tail, a shorter one is followed by a word
\* character
AliasWord(col, q) ==
  LET e == WordRunEnd(col, q) IN
  IF e > q /\ AliasTail(col, e) THEN <<SubSeq(col, q, e - 1)>> ELSE <<>>

\* ["']?([a-zA-Z0-9_]+)["']?\s*$ at index q
AliasQuotedWord(col, q) ==
  IF q <= Len(col) /\ IsQuoteChar(col[q]) /\ AliasWord(col, q + 1) # <<>>
  THEN AliasWord(col, q + 1)
  ELSE AliasWord(col, q)

\* (?:AS\s+)? with its greedy \s+ at q..., then the rest of the alias pattern
RECURSIVE AliasAfterAs(_, _, _)
AliasAfterAs(col, q, w) ==
  IF w < 1 THEN <<>>
  ELSE IF AliasQuotedWord(col, q + w) # <<>>
       THEN AliasQuotedWord(col, q + w)
       ELSE AliasAfterAs(col, q, w - 1)

\* the alias pattern after its leading \s+, taking w characters from p
RECURSIVE AliasAfterSpaces(_, _, _)
AliasAfterSpaces(col, p, w) ==
  IF w < 1 THEN <<>>
  ELSE LET q == p + w
           withAs == IF MatchesAt(col, q, KwAs)
                     THEN AliasAfterAs(col, q + 2,
                                       SkipSpaces(col, q + 2) - (q + 2))
                     ELSE <<>>
       IN IF withAs # <<>> THEN withAs
          ELSE IF AliasQuotedWord(col, q) # <<>>
               THEN AliasQuotedWord(col, q)
               ELSE AliasAfterSpaces(col, p, w - 1)

\* col.match(/\s+(?:AS\s+)?["']?([a-zA-Z0-9_]+)["']?\s*$/i): leftmost start p
RECURSIVE AliasMatch(_, _)
AliasMatch(col, p) ==
  IF p > Len(col) THEN <<>>
  ELSE LET m == AliasAfterSpaces(col, p, SkipSpaces(col, p) - p) IN
       IF m # <<>> THEN m ELSE AliasMatch(col, p + 1)

\* col.match(/([a-zA-Z0-9_]+)\s*$/): leftmost start p
RECURSIVE ColMatch(_, _)
ColMatch(col, p) ==
  IF p > Len(col) THEN <<>>
  ELSE LET e == WordRunEnd(col, p) IN
       IF e > p /\ SkipSpaces(col, e) > Len(col)
       THEN <<SubSeq(col, p, e - 1)>>
       ELSE ColMatch(col, p + 1)

\* the callback of columnsPart.split(',').map(...)
ColumnName(col) ==
  IF AliasMatch(col, 1) # <<>> THEN AliasMatch(col, 1)[1]
  ELSE IF ColMatch(col, 1) # <<>> THEN ColMatch(col, 1)[1]
  ELSE Trim(col)

\* .filter((col) => col): the empty string is dropped
SelectNonEmpty(cols) == SelectSeq(cols, LAMBDA c : c # <<>>)

NoMetadata == [hasTable |-> FALSE, table |-> <<>>,
               hasColumns |-> FALSE, columns |-> <<>>]

\* extractMetadata: an absent field is has... = FALSE
extractMetadata(sql) ==
  LET fromMatch == FromMatch(sql, 1)
      selectMatch == SelectMatch(sql, 1)
      listed == selectMatch # <<>> /\ Trim(selectMatch[1]) # <<"*">>
      parts == IF listed THEN SplitComma(selectMatch[1], 1, <<>>) ELSE <<>>
  IN [hasTable |-> fromMatch # <<>>,
      table |-> IF fromMatch # <<>> THEN fromMatch[1] ELSE <<>>,
      hasColumns |-> listed,
      columns |-> SelectNonEmpty([k \in 1..Len(parts) |-> ColumnName(parts[k])])]

\* parseSqlTemplate(strings, values, {normalizeWhitespace})
parseSqlTemplate(strs, vals, normalizeWhitespace) ==
  LET joined == InterleaveFrom(strs, vals, 1, <<>>, <<>>)
      sql == IF normalizeWhitespace THEN NormalizeSql(joined.sql)
             ELSE Trim(joined.sql)
  IN [sql |-> sql, params |-> joined.params, metadata |-> extractMetadata(sql)]

----------------------------------------------------------------------------
(* sql-parser: validateSql                                                 *)

KwDrop == <<"D", "R", "O", "P">>
KwDelete == <<"D", "E", "L", "E", "T", "E">>
KwTruncate == <<"T", "R", "U", "N", "C", "A", "T", "E">>
KwAlter == <<"A", "L", "T", "E", "R">>

MsgDrop ==
  "Potentially dangerous SQL pattern detected: DROP statement after semicolon. If this is intentional, use { skipDangerousPatternCheck: true }"
MsgDelete ==
  "Potentially dangerous SQL pattern detected: DELETE statement after semicolon. If this is intentional, use { skipDangerousPatternCheck: true }"
MsgTruncate ==
  "Potentially dangerous SQL pattern detected: TRUNCATE statement after semicolon. If this is intentional, use { skipDangerousPatternCheck: true }"
MsgAlter ==
  "Potentially dangerous SQL pattern detected: ALTER statement after semicolon. If this is intentional, use { skipDangerousPatternCheck: true }"
MsgUnbalanced == "Unbalanced parentheses"

DangerousMessages == {MsgDrop, MsgDelete, MsgTruncate, MsgAlter}

\* /;\s*KW\s+/i matched with its semicolon at index p
KeywordAfterSemicolonAt(s, p, kw) ==
  /\ s[p] = ";"
  /\ LET q == SkipSpaces(s, p + 1) IN
     /\ MatchesAt(s, q, kw)
     /\ q + Len(kw) <= Len(s)
     /\ IsSpace(s[q + Len(kw)])

\* /;\s*DROP\s+/i.test(sql), and the same for TRUNCATE and ALTER
TestKeywordAfterSemicolon(s, kw) ==
  \E p \in 1..Len(s) : KeywordAfterSemicolonAt(s, p, kw)

\* /;\s*DELETE\s+FROM\s+/i.test(sql)
TestDeleteFrom(s) ==
  \E p \in 1..Len(s) :
    /\ KeywordAfterSemicolonAt(s, p, KwDelete)
    /\ LET q == SkipSpaces(s, p + 1)
           r == SkipSpaces(s, q + 6)
       IN /\ MatchesAt(s, r, KwFrom)
          /\ r + 4 <= Len(s)
          /\ IsSpace(s[r + 4])

\* a variant whose loop stops at the first pattern that tests true
DangerousPatternErrorsFirstOnly(s) ==
  IF TestKeywordAfterSemicolon(s, KwDrop) THEN <<MsgDrop>>
  ELSE IF TestDeleteFrom(s) THEN <<MsgDelete>>
  ELSE IF TestKeywordAfterSemicolon(s, KwTruncate) THEN <<MsgTruncate>>
  ELSE IF TestKeywordAfterSemicolon(s, KwAlter) THEN <<MsgAlter>>
  ELSE <<>>

\* a variant with the pattern list of the earlier revision: no ALTER entry
DangerousPatternErrorsNoAlter(s) ==
  (IF TestKeywordAfterSemicolon(s, KwDrop) THEN <<MsgDrop>> ELSE <<>>)
  \o (IF TestDeleteFrom(s) THEN <<MsgDelete>> ELSE <<>>)
  \o (IF TestKeywordAfterSemicolon(s, KwTruncate) THEN <<MsgTruncate>> ELSE <<>>)

\* the dangerousPatterns list with its loop: one error per pattern that tests true
DangerousPatternErrors(s) ==
  (IF TestKeywordAfterSemicolon(s, KwDrop) THEN <<MsgDrop>> ELSE <<>>)
  \o (IF TestDeleteFrom(s) THEN <<MsgDelete>> ELSE <<>>)
  \o (IF TestKeywordAfterSemicolon(s, KwTruncate) THEN <<MsgTruncate>> ELSE <<>>)
  \o (IF TestKeywordAfterSemicolon(s, KwAlter) THEN <<MsgAlter>> ELSE <<>>)

\* a variant without the in-loop test: only the final count is looked at
RECURSIVE ParenScanNoBreak(_, _, _)
ParenScanNoBreak(s, i, parenCount) ==
  IF i > Len(s) THEN parenCount
  ELSE ParenScanNoBreak(s, i + 1,
                        IF s[i] = "(" THEN parenCount + 1
                        ELSE IF s[i] = ")" THEN parenCount - 1
                        ELSE parenCount)

\* the for-of loop over the characters: parenCount when the loop ends, by
\* running out of characters or by its break at a negative count
RECURSIVE ParenScan(_, _, _)
ParenScan(s, i, parenCount) ==
  IF i > Len(s) THEN parenCount
  ELSE LET n == IF s[i] = "(" THEN parenCount + 1
                ELSE IF s[i] = ")" THEN parenCount - 1
                ELSE parenCount
       IN IF n < 0 THEN n ELSE ParenScan(s, i + 1, n)

\* the balanced-parentheses check: the error pushed inside the loop before
\* the break, then the one pushed after the loop
ParenErrors(s) ==
  LET parenCount == ParenScan(s, 1, 0) IN
  (IF parenCount < 0 THEN <<MsgUnbalanced>> ELSE <<>>)
  \o (IF parenCount > 0 THEN <<MsgUnbalanced>> ELSE <<>>)

NoValidation == [valid |-> FALSE, errors |-> <<>>]

\* validateSql(sql, {skipDangerousPatternCheck})
validateSql(s, skipDangerousPatternCheck) ==
  LET errors == (IF ~skipDangerousPatternCheck
                 THEN DangerousPatternErrors(s) ELSE <<>>)
                \o ParenErrors(s)
  IN [valid |-> Len(errors) = 0, errors |-> errors]

----------------------------------------------------------------------------
(* query: the sql tag                                                      *)

NoParsed == [sql |-> <<>>, params |-> <<>>, metadata |-> NoMetadata]

\* a variant that wraps the ParsedQuery without looking at the validation
sqlUnvalidated(strs, vals) ==
  LET p == parseSqlTemplate(strs, vals, TRUE)
      v == validateSql(p.sql, FALSE)
  IN [threw |-> FALSE, parsed |-> p, validation |-> v]

\* sql`...`: parse, validate with the default options, throw or wrap
sql(strs, vals) ==
  LET p == parseSqlTemplate(strs, vals, TRUE)
      v == validateSql(p.sql, FALSE)
  IN [threw |-> ~v.valid, parsed |-> p, validation |-> v]

----------------------------------------------------------------------------
(* type-generator: TypeGenerator                                           *)

TsNumber == <<"n", "u", "m", "b", "e", "r">>
TsString == <<"s", "t", "r", "i", "n", "g">>
TsBoolean == <<"b", "o", "o", "l", "e", "a", "n">>
TsDate == <<"D", "a", "t", "e">>
TsJsonValue == <<"J", "s", "o", "n", "V", "a", "l", "u", "e">>
TsJsonObject == <<"J", "s", "o", "n", "O", "b", "j", "e", "c", "t">>
TsJsonArray == <<"J", "s", "o", "n", "A", "r", "r", "a", "y">>
TsUnknown == <<"u", "n", "k", "n", "o", "w", "n">>

\* the defaultMappings literal of the constructor
DefaultMappings ==
  (<<"N", "U", "M", "B", "E", "R">> :> TsNumber)
  @@ (<<"D", "E", "C", "I", "M", "A", "L">> :> TsNumber)
  @@ (<<"N", "U", "M", "E", "R", "I", "C">> :> TsNumber)
  @@ (<<"I", "N", "T">> :> TsNumber)
  @@ (<<"I", "N", "T", "E", "G", "E", "R">> :> TsNumber)
  @@ (<<"B", "I", "G", "I", "N", "T">> :> TsNumber)
  @@ (<<"S", "M", "A", "L", "L", "I", "N", "T">> :> TsNumber)
  @@ (<<"T", "I", "N", "Y", "I", "N", "T">> :> TsNumber)
  @@ (<<"B", "Y", "T", "E", "I", "N", "T">> :> TsNumber)
  @@ (<<"F", "L", "O", "A", "T">> :> TsNumber)
  @@ (<<"F", "L", "O", "A", "T", "4">> :> TsNumber)
  @@ (<<"F", "L", "O", "A", "T", "8">> :> TsNumber)
  @@ (<<"D", "O", "U", "B", "L", "E">> :> TsNumber)
  @@ (<<"D", "O", "U", "B", "L", "E", " ", "P", "R", "E", "C", "I", "S", "I", "O", "N">> :> TsNumber)
  @@ (<<"R", "E", "A", "L">> :> TsNumber)
  @@ (<<"V", "A", "R", "C", "H", "A", "R">> :> TsString)
  @@ (<<"C", "H", "A", "R">> :> TsString)
  @@ (<<"C", "H", "A", "R", "A", "C", "T", "E", "R">> :> TsString)
  @@ (<<"S", "T", "R", "I", "N", "G">> :> TsString)
  @@ (<<"T", "E", "X", "T">> :> TsString)
  @@ (<<"B", "I", "N", "A", "R", "Y">> :> TsString)
  @@ (<<"V", "A", "R", "B", "I", "N", "A", "R", "Y">> :> TsString)
  @@ (<<"B", "O", "O", "L", "E", "A", "N">> :> TsBoolean)
  @@ (<<"D", "A", "T", "E">> :> TsDate)
  @@ (<<"D", "A", "T", "E", "T", "I", "M", "E">> :> TsDate)
  @@ (<<"T", "I", "M", "E">> :> TsDate)
  @@ (<<"T", "I", "M", "E", "S", "T", "A", "M", "P">> :> TsDate)
  @@ (<<"T", "I", "M", "E", "S", "T", "A", "M", "P", "_", "L", "T", "Z">> :> TsDate)
  @@ (<<"T", "I", "M", "E", "S", "T", "A", "M", "P", "_", "N", "T", "Z">> :> TsDate)
  @@ (<<"T", "I", "M", "E", "S", "T", "A", "M", "P", "_", "T", "Z">> :> TsDate)
  @@ (<<"V", "A", "R", "I", "A", "N", "T">> :> TsJsonValue)
  @@ (<<"O", "B", "J", "E", "C", "T">> :> TsJsonObject)
  @@ (<<"A", "R", "R", "A", "Y">> :> TsJsonArray)
  @@ (<<"G", "E", "O", "G", "R", "A", "P", "H", "Y">> :> TsString)
  @@ (<<"G", "E", "O", "M", "E", "T", "R", "Y">> :> TsString)

\* constructor: this.typeMapping = { ...defaultMappings, ...typeMapping }
TypeGeneratorNew(overrides) ==
  [k \in DOMAIN DefaultMappings \cup DOMAIN overrides |->
     IF k \in DOMAIN overrides THEN overrides[k] ELSE DefaultMappings[k]]

\* upperType.split('(')[0]: the text before the first '('
RECURSIVE BeforeParen(_)
BeforeParen(s) ==
  IF s = <<>> \/ Head(s) = "(" THEN <<>> ELSE <<Head(s)>> \o BeforeParen(Tail(s))

\* this.typeMapping[baseType] || 'unknown': a missing entry is undefined and
\* an empty string is falsy as well
LookupOrUnknown(tm, baseType) ==
  IF baseType \in DOMAIN tm /\ tm[baseType] # <<>> THEN tm[baseType] ELSE TsUnknown

\* a variant that looks the type up as it is spelled
mapTypeCaseSensitive(tm, sfType) ==
  LookupOrUnknown(tm, Trim(BeforeParen(sfType)))

\* mapType(snowflakeType) of a generator whose table is tm
mapType(tm, sfType) ==
  LET upperType == ToUpperCase(sfType)
      baseType == Trim(BeforeParen(upperType))
  IN LookupOrUnknown(tm, baseType)

\* .replace(/_([a-z])/g, (_, letter) => letter.toUpperCase()), from index i
RECURSIVE CamelFrom(_, _)
CamelFrom(s, i) ==
  IF i > Len(s) THEN <<>>
  ELSE IF s[i] = "_" /\ i + 1 <= Len(s) /\ s[i + 1] \in LowerSet
       THEN <<ToUpperChar(s[i + 1])>> \o CamelFrom(s, i + 2)
       ELSE <<s[i]>> \o CamelFrom(s, i + 1)

toCamelCase(str) == CamelFrom(ToLowerCase(str), 1)

\* camel.charAt(0).toUpperCase() + camel.slice(1)
toPascalCase(str) ==
  LET camel == toCamelCase(str) IN
  IF camel = <<>> THEN <<>> ELSE <<ToUpperChar(camel[1])>> \o Tail(camel)

\* a variant that lists the properties from the last column to the first
generateInterfaceReversed(tm, table, cols) ==
  [name |-> toPascalCase(table.table_name),
   tableName |-> table.table_name,
   schema |-> table.table_schema,
   properties |-> [k \in 1..Len(cols) |->
                     [name |-> toCamelCase(cols[Len(cols) + 1 - k].column_name),
                      type |-> mapType(tm, cols[Len(cols) + 1 - k].data_type),
                      nullable |-> cols[Len(cols) + 1 - k].is_nullable = "YES",
                      comment |-> cols[Len(cols) + 1 - k].comment]],
   comment |-> table.comment]

\* generateInterface(table, columns); a null or empty comment becomes
\* undefined, which is <<>> here
generateInterface(tm, table, cols) ==
  [name |-> toPascalCase(table.table_name),
   tableName |-> table.table_name,
   schema |-> table.table_schema,
   properties |-> [k \in 1..Len(cols) |->
                     [name |-> toCamelCase(cols[k].column_name),
                      type |-> mapType(tm, cols[k].data_type),
                      nullable |-> cols[k].is_nullable = "YES",
                      comment |-> cols[k].comment]],
   comment |-> table.comment]

TxInterfaceCommentOpen == <<"/", "*", "*", "\n", " ", "*", " ">>
TxInterfaceCommentClose == <<"\n", " ", "*", "/", "\n">>
TxExportInterface == <<"e", "x", "p", "o", "r", "t", " ", "i", "n", "t", "e", "r", "f", "a", "c", "e", " ">>
TxOpenBrace == <<" ", "{", "\n">>
TxCloseBrace == <<"}", "\n">>
TxPropertyCommentOpen == <<" ", " ", "/", "*", "*", " ">>
TxPropertyCommentClose == <<" ", "*", "/", "\n">>
TxOrNull == <<" ", "|", " ", "n", "u", "l", "l">>

\* a variant that also marks a nullable property optional: name?: type | null
PropertyLineOptional(prop) ==
  <<" ", " ">> \o prop.name
  \o (IF prop.nullable THEN <<"?">> ELSE <<>>) \o <<":", " ">> \o prop.type
  \o (IF prop.nullable THEN TxOrNull ELSE <<>>) \o <<";", "\n">>

\* `  ${prop.name}: ${prop.type}${nullType};\n`
PropertyLine(prop) ==
  LET nullType == IF prop.nullable THEN TxOrNull ELSE <<>> IN
  <<" ", " ">> \o prop.name \o <<":", " ">> \o prop.type \o nullType
  \o <<";", "\n">>

\* the body of the for loop over iface.properties, from property k on
RECURSIVE PropertiesCode(_, _)
PropertiesCode(props, k) ==
  IF k > Len(props) THEN <<>>
  ELSE (IF props[k].comment # <<>>
        THEN TxPropertyCommentOpen \o props[k].comment \o TxPropertyCommentClose
        ELSE <<>>)
       \o PropertyLine(props[k])
       \o PropertiesCode(props, k + 1)

\* generateInterfaceCode(iface)
generateInterfaceCode(ifc) ==
  (IF ifc.comment # <<>>
   THEN TxInterfaceCommentOpen \o ifc.comment \o TxInterfaceCommentClose
   ELSE <<>>)
  \o TxExportInterface \o ifc.name \o TxOpenBrace
  \o PropertiesCode(ifc.properties, 1)
  \o TxCloseBrace

\* String.prototype.split(c) for a single character c: the text before the
\* first c, then the split of the text after it
RECURSIVE SplitOn(_, _)
SplitOn(s, c) ==
  IF \A i \in 1..Len(s) : s[i] # c THEN <<s>>
  ELSE LET i == CHOOSE i \in 1..Len(s) :
                  s[i] = c /\ \A j \in 1..(i - 1) : s[j] # c
       IN <<SubSeq(s, 1, i - 1)>> \o SplitOn(SubSeq(s, i + 1, Len(s)), c)

\* Array.prototype.join(sep)
RECURSIVE Join(_, _, _)
Join(parts, sep, k) ==
  IF k > Len(parts) THEN <<>>
  ELSE (IF k > 1 THEN sep ELSE <<>>) \o parts[k] \o Join(parts, sep, k + 1)

\* interfaceCode.split('\n').map((line) => (line ? `  ${line}` : '')).join('\n')
IndentCode(text) ==
  LET lines == SplitOn(text, "\n") IN
  Join([k \in 1..Len(lines) |->
          IF lines[k] # <<>> THEN <<" ", " ">> \o lines[k] ELSE <<>>],
       <<"\n">>, 1)

\* a variant that puts each new schema in front of the earlier ones
RECURSIVE SchemaKeysNewestFirst(_, _, _)
SchemaKeysNewestFirst(ifaces, k, seen) ==
  IF k > Len(ifaces) THEN seen
  ELSE IF \E j \in 1..Len(seen) : seen[j] = ifaces[k].schema
       THEN SchemaKeysNewestFirst(ifaces, k + 1, seen)
       ELSE SchemaKeysNewestFirst(ifaces, k + 1, <<ifaces[k].schema>> \o seen)

\* the keys of bySchema, in insertion order: each schema once, in the order
\* in which the interfaces first name it
RECURSIVE SchemaKeys(_, _, _)
SchemaKeys(ifaces, k, seen) ==
  IF k > Len(ifaces) THEN seen
  ELSE IF \E j \in 1..Len(seen) : seen[j] = ifaces[k].schema
       THEN SchemaKeys(ifaces, k + 1, seen)
       ELSE SchemaKeys(ifaces, k + 1, Append(seen, ifaces[k].schema))

\* bySchema.get(schema): the interfaces of one schema, in input order
SchemaInterfaces(ifaces, schema) ==
  SelectSeq(ifaces, LAMBDA f : f.schema = schema)

TxFileHeader ==
    <<"/", "*", "*", "\n", " ", "*", " ", "G", "e", "n", "e", "r", "a",
      "t", "e", "d", " ", "t", "y", "p", "e", "s", " ", "f", "r", "o", "m",
      " ", "S", "n", "o", "w", "f", "l", "a", "k", "e", " ", "s", "c", "h",
      "e", "m", "a", "\n", " ", "*", " ", "D", "o", " ", "n", "o", "t",
      " ", "e", "d", "i", "t", " ", "m", "a", "n", "u", "a", "l", "l", "y",
      " ", "-", " ", "r", "e", "g", "e", "n", "e", "r", "a", "t", "e", " ",
      "u", "s", "i", "n", "g", ":", " ", "n", "p", "x", " ", "s", "q", "l",
      "x", " ", "g", "e", "n", "e", "r", "a", "t", "e", "\n", " ", "*",
      "/", "\n", "\n">>
TxJsonTypes ==
    <<"/", "/", " ", "J", "S", "O", "N", " ", "t", "y", "p", "e", "s", " ",
      "f", "o", "r", " ", "V", "A", "R", "I", "A", "N", "T", " ", "c", "o",
      "l", "u", "m", "n", "s", "\n", "e", "x", "p", "o", "r", "t", " ",
      "t", "y", "p", "e", " ", "J", "s", "o", "n", "P", "r", "i", "m", "i",
      "t", "i", "v", "e", " ", "=", " ", "s", "t", "r", "i", "n", "g", " ",
      "|", " ", "n", "u", "m", "b", "e", "r", " ", "|", " ", "b", "o", "o",
      "l", "e", "a", "n", " ", "|", " ", "n", "u", "l", "l", ";", "\n",
      "e", "x", "p", "o", "r", "t", " ", "t", "y", "p", "e", " ", "J", "s",
      "o", "n", "A", "r", "r", "a", "y", " ", "=", " ", "J", "s", "o", "n",
      "V", "a", "l", "u", "e", "[", "]", ";", "\n", "e", "x", "p", "o",
      "r", "t", " ", "t", "y", "p", "e", " ", "J", "s", "o", "n", "O", "b",
      "j", "e", "c", "t", " ", "=", " ", "{", " ", "[", "k", "e", "y", ":",
      " ", "s", "t", "r", "i", "n", "g", "]", ":", " ", "J", "s", "o", "n",
      "V", "a", "l", "u", "e", " ", "}", ";", "\n", "e", "x", "p", "o",
      "r", "t", " ", "t", "y", "p", "e", " ", "J", "s", "o", "n", "V", "a",
      "l", "u", "e", " ", "=", " ", "J", "s", "o", "n", "P", "r", "i", "m",
      "i", "t", "i", "v", "e", " ", "|", " ", "J", "s", "o", "n", "A", "r",
      "r", "a", "y", " ", "|", " ", "J", "s", "o", "n", "O", "b", "j", "e",
      "c", "t", ";", "\n", "\n">>
TxSchemaComment == <<"/", "/", " ", "S", "c", "h", "e", "m", "a", ":", " ">>
TxExportNamespace == <<"e", "x", "p", "o", "r", "t", " ", "n", "a", "m", "e", "s", "p", "a", "c", "e", " ">>
TxNamespaceClose == <<"}", "\n", "\n">>
TxDatabaseOpen == <<"/", "/", " ", "D", "a", "t", "a", "b", "a", "s", "e", " ", "s", "t", "r", "u", "c", "t", "u", "r", "e", "\n", "e", "x", "p", "o", "r", "t", " ", "i", "n", "t", "e", "r", "f", "a", "c", "e", " ", "D", "a", "t", "a", "b", "a", "s", "e", " ", "{", "\n">>
TxTypeof == <<":", " ", "t", "y", "p", "e", "o", "f", " ">>

\* the inner loop of generateFile over one schema's interfaces
RECURSIVE NamespaceBody(_, _)
NamespaceBody(ifaces, k) ==
  IF k > Len(ifaces) THEN <<>>
  ELSE IndentCode(generateInterfaceCode(ifaces[k])) \o <<"\n">>
       \o NamespaceBody(ifaces, k + 1)

\* the loop of generateFile over bySchema: one namespace per schema
RECURSIVE NamespacesCode(_, _, _)
NamespacesCode(ifaces, keys, k) ==
  IF k > Len(keys) THEN <<>>
  ELSE TxSchemaComment \o keys[k] \o <<"\n">>
       \o TxExportNamespace \o toPascalCase(keys[k]) \o TxOpenBrace
       \o NamespaceBody(SchemaInterfaces(ifaces, keys[k]), 1)
       \o TxNamespaceClose
       \o NamespacesCode(ifaces, keys, k + 1)

\* the loop of generateFile over bySchema.keys(): the fields of Database
RECURSIVE DatabaseFields(_, _)
DatabaseFields(keys, k) ==
  IF k > Len(keys) THEN <<>>
  ELSE <<" ", " ">> \o toCamelCase(keys[k]) \o TxTypeof
       \o toPascalCase(keys[k]) \o <<";", "\n">>
       \o DatabaseFields(keys, k + 1)

\* generateFile(interfaces)
generateFile(ifaces) ==
  LET keys == SchemaKeys(ifaces, 1, <<>>) IN
  TxFileHeader \o TxJsonTypes
  \o NamespacesCode(ifaces, keys, 1)
  \o TxDatabaseOpen
  \o DatabaseFields(keys, 1)
  \o TxCloseBrace

----------------------------------------------------------------------------
(* introspector: SchemaIntrospector                                        *)

\* getTables, the callback of config.schemas.map
QuoteSchema(s) ==
  IF s # ToUpperCase(s)
  THEN <<"'">> \o s \o <<"'">>
  ELSE <<"'">> \o ToUpperCase(s) \o <<"'">>

\* getTables: const schemasIn = config.schemas.map(...).join(', ')
schemasIn(schemas) ==
  Join([k \in 1..Len(schemas) |-> QuoteSchema(schemas[k])], <<",", " ">>, 1)

\* a variant that upper-cases every table name
QuoteTableUpper(t) == <<"'">> \o ToUpperCase(t) \o <<"'">>

\* getColumns, the callback of tables.map
QuoteTable(t) ==
  IF t # ToUpperCase(t)
  THEN <<"'">> \o t \o <<"'">>
  ELSE <<"'">> \o ToUpperCase(t) \o <<"'">>

\* getColumns: const tablesIn = tables.map(...).join(', ')
tablesIn(tableNames) ==
  Join([k \in 1..Len(tableNames) |-> QuoteTable(tableNames[k])], <<",", " ">>, 1)

\* getColumns: const schemaQuoted = ...
schemaQuoted(schema) ==
  IF schema # ToUpperCase(schema) THEN schema ELSE ToUpperCase(schema)

TxTablesSelect ==
    <<"\n", " ", " ", " ", " ", " ", " ", "S", "E", "L", "E", "C", "T",
      "\n", " ", " ", " ", " ", " ", " ", " ", " ", "t", "a", "b", "l",
      "e", "_", "c", "a", "t", "a", "l", "o", "g", ",", "\n", " ", " ",
      " ", " ", " ", " ", " ", " ", "t", "a", "b", "l", "e", "_", "s", "c",
      "h", "e", "m", "a", ",", "\n", " ", " ", " ", " ", " ", " ", " ",
      " ", "t", "a", "b", "l", "e", "_", "n", "a", "m", "e", ",", "\n",
      " ", " ", " ", " ", " ", " ", " ", " ", "t", "a", "b", "l", "e", "_",
      "t", "y", "p", "e", ",", "\n", " ", " ", " ", " ", " ", " ", " ",
      " ", "c", "o", "m", "m", "e", "n", "t", "\n", " ", " ", " ", " ",
      " ", " ", "F", "R", "O", "M", " ">>
TxTablesWhere ==
    <<".", "I", "N", "F", "O", "R", "M", "A", "T", "I", "O", "N", "_", "S",
      "C", "H", "E", "M", "A", ".", "T", "A", "B", "L", "E", "S", "\n",
      " ", " ", " ", " ", " ", " ", "W", "H", "E", "R", "E", " ", "t", "a",
      "b", "l", "e", "_", "s", "c", "h", "e", "m", "a", " ", "I", "N", " ",
      "(">>
TxTablesOrder ==
    <<")", "\n", " ", " ", " ", " ", " ", " ", " ", " ", "A", "N", "D",
      " ", "t", "a", "b", "l", "e", "_", "t", "y", "p", "e", " ", "I", "N",
      " ", "(", "'", "B", "A", "S", "E", " ", "T", "A", "B", "L", "E", "'",
      ",", " ", "'", "V", "I", "E", "W", "'", ")", "\n", " ", " ", " ",
      " ", " ", " ", "O", "R", "D", "E", "R", " ", "B", "Y", " ", "t", "a",
      "b", "l", "e", "_", "s", "c", "h", "e", "m", "a", ",", " ", "t", "a",
      "b", "l", "e", "_", "n", "a", "m", "e", "\n", " ", " ", " ", " ">>

\* getTables: the query template
TablesQuery(cfg) ==
  TxTablesSelect \o cfg.database \o TxTablesWhere \o schemasIn(cfg.schemas)
  \o TxTablesOrder

TxColumnsSelect ==
    <<"\n", " ", " ", " ", " ", " ", " ", "S", "E", "L", "E", "C", "T",
      "\n", " ", " ", " ", " ", " ", " ", " ", " ", "t", "a", "b", "l",
      "e", "_", "c", "a", "t", "a", "l", "o", "g", ",", "\n", " ", " ",
      " ", " ", " ", " ", " ", " ", "t", "a", "b", "l", "e", "_", "s", "c",
      "h", "e", "m", "a", ",", "\n", " ", " ", " ", " ", " ", " ", " ",
      " ", "t", "a", "b", "l", "e", "_", "n", "a", "m", "e", ",", "\n",
      " ", " ", " ", " ", " ", " ", " ", " ", "c", "o", "l", "u", "m", "n",
      "_", "n", "a", "m", "e", ",", "\n", " ", " ", " ", " ", " ", " ",
      " ", " ", "o", "r", "d", "i", "n", "a", "l", "_", "p", "o", "s", "i",
      "t", "i", "o", "n", ",", "\n", " ", " ", " ", " ", " ", " ", " ",
      " ", "c", "o", "l", "u", "m", "n", "_", "d", "e", "f", "a", "u", "l",
      "t", ",", "\n", " ", " ", " ", " ", " ", " ", " ", " ", "i", "s",
      "_", "n", "u", "l", "l", "a", "b", "l", "e", ",", "\n", " ", " ",
      " ", " ", " ", " ", " ", " ", "d", "a", "t", "a", "_", "t", "y", "p",
      "e", ",", "\n", " ", " ", " ", " ", " ", " ", " ", " ", "c", "h",
      "a", "r", "a", "c", "t", "e", "r", "_", "m", "a", "x", "i", "m", "u",
      "m", "_", "l", "e", "n", "g", "t", "h", ",", "\n", " ", " ", " ",
      " ", " ", " ", " ", " ", "n", "u", "m", "e", "r", "i", "c", "_", "p",
      "r", "e", "c", "i", "s", "i", "o", "n", ",", "\n", " ", " ", " ",
      " ", " ", " ", " ", " ", "n", "u", "m", "e", "r", "i", "c", "_", "s",
      "c", "a", "l", "e", ",", "\n", " ", " ", " ", " ", " ", " ", " ",
      " ", "c", "o", "m", "m", "e", "n", "t", "\n", " ", " ", " ", " ",
      " ", " ", "F", "R", "O", "M", " ">>
TxColumnsWhere ==
    <<".", "I", "N", "F", "O", "R", "M", "A", "T", "I", "O", "N", "_", "S",
      "C", "H", "E", "M", "A", ".", "C", "O", "L", "U", "M", "N", "S",
      "\n", " ", " ", " ", " ", " ", " ", "W", "H", "E", "R", "E", " ",
      "t", "a", "b", "l", "e", "_", "s", "c", "h", "e", "m", "a", " ", "=",
      " ", "'">>
TxColumnsAnd ==
    <<"'", "\n", " ", " ", " ", " ", " ", " ", " ", " ", "A", "N", "D",
      " ", "t", "a", "b", "l", "e", "_", "n", "a", "m", "e", " ", "I", "N",
      " ", "(">>
TxColumnsOrder ==
    <<")", "\n", " ", " ", " ", " ", " ", " ", "O", "R", "D", "E", "R",
      " ", "B", "Y", " ", "t", "a", "b", "l", "e", "_", "n", "a", "m", "e",
      ",", " ", "o", "r", "d", "i", "n", "a", "l", "_", "p", "o", "s", "i",
      "t", "i", "o", "n", "\n", " ", " ", " ", " ">>

\* getColumns: the query template
ColumnsQuery(database, schema, tableNames) ==
  TxColumnsSelect \o database \o TxColumnsWhere \o schemaQuoted(schema)
  \o TxColumnsAnd \o tablesIn(tableNames) \o TxColumnsOrder

\* pattern.replace(/\*/g, '.*')
RECURSIVE ReplaceStars(_)
ReplaceStars(p) ==
  IF p = <<>> THEN <<>>
  ELSE (IF Head(p) = "*" THEN <<".", "*">> ELSE <<Head(p)>>)
       \o ReplaceStars(Tail(p))

\* .replace(/\?/g, '.')
RECURSIVE ReplaceQuestions(_)
ReplaceQuestions(p) ==
  IF p = <<>> THEN <<>>
  ELSE (IF Head(p) = "?" THEN <<".">> ELSE <<Head(p)>>)
       \o ReplaceQuestions(Tail(p))

\* one atom of the regular expression against one character, under the i
\* flag: '.' is any character but a line break, every other atom is itself.
\* Patterns are over letters, digits, '_', '.', '*' and '?'.
AtomMatches(a, c) ==
  IF a = "." THEN c # "\n" ELSE ToUpperChar(a) = ToUpperChar(c)

\* the rest re[i..] of the expression against the rest v[j..] of the value,
\* up to the closing $; after the two replacements every '*' follows a '.'
RECURSIVE RegexMatchFrom(_, _, _, _)
RegexMatchFrom(re, i, v, j) ==
  IF i > Len(re) THEN j > Len(v)
  ELSE IF i + 1 <= Len(re) /\ re[i + 1] = "*"
       THEN \/ (j <= Len(v) /\ AtomMatches(re[i], v[j])
                /\ RegexMatchFrom(re, i, v, j + 1))
            \/ RegexMatchFrom(re, i + 2, v, j)
       ELSE j <= Len(v) /\ AtomMatches(re[i], v[j])
            /\ RegexMatchFrom(re, i + 1, v, j + 1)

\* matchPattern(value, pattern)
matchPattern(value, pattern) ==
  LET regexPattern == ReplaceQuestions(ReplaceStars(pattern)) IN
  RegexMatchFrom(regexPattern, 1, value, 1)

\* getTables: the include and exclude filters over result.rows; an absent
\* pattern list behaves as an empty one
FilterTables(rows, cfg) ==
  LET included ==
        IF Len(cfg.includeTables) > 0
        THEN SelectSeq(rows, LAMBDA t :
               \E k \in 1..Len(cfg.includeTables) :
                 matchPattern(t.table_name, cfg.includeTables[k]))
        ELSE rows
  IN IF Len(cfg.excludeTables) > 0
     THEN SelectSeq(included, LAMBDA t :
            ~ \E k \in 1..Len(cfg.excludeTables) :
                matchPattern(t.table_name, cfg.excludeTables[k]))
     ELSE included

\* a variant that batches nothing: one entry, and so one query, per table
GroupPerTable(tbls, k, groups) ==
  [g \in 1..Len(tbls) |->
     [schema |-> tbls[g].table_schema, tables |-> <<tbls[g].table_name>>]]

\* getAllColumns: the loop that fills tablesBySchema, from table k on; the
\* Map keeps its keys in insertion order
RECURSIVE GroupBySchema(_, _, _)
GroupBySchema(tbls, k, groups) ==
  IF k > Len(tbls) THEN groups
  ELSE LET schema == tbls[k].table_schema
           has == \E g \in 1..Len(groups) : groups[g].schema = schema
           withKey == IF has THEN groups
                      ELSE Append(groups, [schema |-> schema, tables |-> <<>>])
       IN GroupBySchema(tbls, k + 1,
            [g \in 1..Len(withKey) |->
               IF withKey[g].schema = schema
               THEN [withKey[g] EXCEPT !.tables = Append(@, tbls[k].table_name)]
               ELSE withKey[g]])

\* a variant that puts the new rows in front
PushAllInFront(acc, rows) == rows \o acc

\* getAllColumns: allColumns.push(...columns)
PushAll(acc, rows) == acc \o rows

----------------------------------------------------------------------------
(* connection: SnowflakeConnection.execute, the executor of the            *)
(* introspector's queries                                                   *)

NoError == [message |-> "", sql |-> <<>>]

ErrNotConnected ==
  [message |-> "Not connected to Snowflake. Call connect() first.", sql |-> <<>>]

\* `Query execution failed: ${err.message}\nSQL: ${sqlText}`
ErrQueryFailed(sqlText) ==
  [message |-> "Query execution failed: driver error", sql |-> sqlText]

\* the error execute(sqlText) rejects with when it rejects
ExecuteError(isConnected, sqlText) ==
  IF ~isConnected THEN ErrNotConnected ELSE ErrQueryFailed(sqlText)

TxSelectOne == <<"S", "E", "L", "E", "C", "T", " ", "1">>

\* getConnection: throw new Error('No Snowflake connection configured. ...')
ErrNoConnection ==
  [message |-> "No Snowflake connection configured. Call setConnection() first.",
   sql |-> <<>>]

\* sql: `Invalid SQL query:\n${validation.errors.join('\n')}\nSQL: ${parsed.sql}`
ErrInvalidSql(errors, sqlText) ==
  [message |-> "Invalid SQL query:", errors |-> errors, sql |-> sqlText]

----------------------------------------------------------------------------
(* The state of a component that is not under exercise.                    *)

NoInterface ==
  [name |-> <<>>, tableName |-> <<>>, schema |-> <<>>, properties |-> <<>>,
   comment |-> <<>>]

GenIdle ==
  /\ typeOverrides = <<>> /\ typeMapping = <<>>
  /\ snowflakeType = <<>> /\ mappedType = <<>>
  /\ tables = <<>> /\ columns = <<>> /\ interfaces = <<>>
  /\ iface = NoInterface /\ code = <<>>

NoConfig ==
  [database |-> <<>>, schemas |-> <<>>, includeTables |-> <<>>,
   excludeTables |-> <<>>]

NoColArgs == [database |-> <<>>, schema |-> <<>>, tables |-> <<>>]

IntroIdle ==
  /\ config = NoConfig /\ colArgs = NoColArgs
  /\ issued = <<>> /\ tablesResult = <<>> /\ columnsResult = <<>>
  /\ executed = 0 /\ tableRows = <<>> /\ columnRows = <<>>
  /\ tablesBySchema = <<>> /\ schemaIdx = 0 /\ allColumns = <<>>
  /\ thrown = NoError /\ rejection = NoError /\ testResult = FALSE

MatchIdle == matchName = <<>> /\ matchGlob = <<>> /\ matchResult = FALSE

QueryIdle == queryError = NoError /\ shown = NoParsed /\ calls = 0 /\ sent = <<>>

NoCall == [op |-> "none"]
NoFile == [exists |-> FALSE, code |-> <<>>, interfaces |-> <<>>]

LifeIdle == opened = FALSE /\ driverLog = <<>> /\ lastCall = NoCall

CmdIdle == closeCalls = 0 /\ written = NoFile

GlobalIdle == globalConnection = 0 /\ events = <<>> /\ pending = {}

ConnIdle == QueryIdle /\ LifeIdle /\ CmdIdle /\ GlobalIdle

----------------------------------------------------------------------------
(* The callers of the SQL layer.  A tagged template sql`...${v}...` is a   *)
(* sequence of items, each a piece of literal text or an interpolated      *)
(* value; the host language splits it into the strings and the values.     *)

MaxTemplate == 3

Lit(text) == [hole |-> FALSE, type |-> "literal", text |-> text]
Hole(type, text) == [hole |-> TRUE, type |-> type, text |-> text]

\* the values a caller interpolates: a number and an injection attempt
ValueNumber == [type |-> "number", text |-> <<"5">>]
ValueString == [type |-> "string", text |-> <<";", " ", "D", "R", "O", "P", " ", "T", "A", "B", "L", "E", " ", "t">>]
Values == {ValueNumber, ValueString}

LiteralPieces ==
  {<<" ">>, <<"\n">>, <<",">>, <<"(">>, <<")">>, <<"?">>, <<"a">>,
   <<"S", "E", "L", "E", "C", "T", " ", "a">>, <<" ", "F", "R", "O", "M", " ", "t">>}

Items == {Lit(t) : t \in LiteralPieces} \cup {Hole(v.type, v.text) : v \in Values}

Templates == UNION {[1..n -> Items] : n \in 0..MaxTemplate}

\* the strings array of a template: the literal text between the holes
RECURSIVE TemplateStrings(_, _, _)
TemplateStrings(t, i, cur) ==
  IF i > Len(t) THEN <<cur>>
  ELSE IF t[i].hole
       THEN <<cur>> \o TemplateStrings(t, i + 1, <<>>)
       ELSE TemplateStrings(t, i + 1, cur \o t[i].text)

\* the values array of a template
TemplateValues(t) ==
  LET holes == SelectSeq(t, LAMBDA it : it.hole) IN
  [k \in 1..Len(holes) |-> [type |-> holes[k].type, text |-> holes[k].text]]

SqlIdle ==
  /\ strings = <<>> /\ values = <<>> /\ normalize = TRUE
  /\ parsed = NoParsed
  /\ sqlIn = <<>> /\ skipCheck = FALSE
  /\ validation = NoValidation

InitCompile ==
  /\ comp = "compile"
  /\ pc = "start"
  /\ \E t \in Templates :
       /\ strings = TemplateStrings(t, 1, <<>>)
       /\ values = TemplateValues(t)
  /\ normalize = TRUE
  /\ parsed = NoParsed
  /\ sqlIn = <<>> /\ skipCheck = FALSE
  /\ validation = NoValidation
  /\ GenIdle /\ IntroIdle /\ MatchIdle /\ connected = FALSE
  /\ ConnIdle

(* The callers of parseSqlTemplate with a SELECT statement: a select list, *)
(* a FROM clause and a filter that interpolates a value.                   *)

MaxEntries == 2

SelectWords == {<<"S", "E", "L", "E", "C", "T", " ">>, <<"s", "e", "l", "e", "c", "t", "\n">>}
Entries ==
  {<<"*">>, <<"a">>, <<"b">>, <<"t", ".", "c">>, <<"a", " ", "a", "s", " ", "\"", "x", "\"">>,
   <<"f", "(", "a", ")", " ", " ", "y">>,
   <<"v", "a", "l", "i", "d", "_", "f", "r", "o", "m", " ", "A", "S", " ", "v">>, <<"f", "r", "o", "m", "_", "d", "a", "t", "e">>}
EntryLists == UNION {[1..n -> Entries] : n \in 1..MaxEntries}
FromWords == {<<" ", "F", "R", "O", "M", " ">>, <<"\n", "f", "r", "o", "m", " ">>, <<>>}
TablePaths == {<<"t">>, <<"d", "b", ".", "s", ".", "t">>, <<"(", "u", ")">>}
TxWhere == <<" ", "W", "H", "E", "R", "E", " ", "x", " ", "=", " ">>

SelectTexts ==
  {sel \o Join(es, <<",", " ">>, 1) \o frm \o tbl :
     sel \in SelectWords, es \in EntryLists, frm \in FromWords, tbl \in TablePaths}

InitMetadata ==
  /\ comp = "metadata"
  /\ pc = "start"
  /\ \E text \in SelectTexts :
       \/ strings = <<text>> /\ values = <<>>
       \/ strings = <<text \o TxWhere, <<>>>> /\ values = <<ValueNumber>>
  /\ normalize = TRUE
  /\ parsed = NoParsed
  /\ sqlIn = <<>> /\ skipCheck = FALSE
  /\ validation = NoValidation
  /\ GenIdle /\ IntroIdle /\ MatchIdle /\ connected = FALSE
  /\ ConnIdle

\* a direct call parseSqlTemplate(strings, values, options)
CallParseSqlTemplate ==
  /\ comp \in {"compile", "metadata"} /\ pc = "start"
  /\ \E nw \in BOOLEAN :
       /\ normalize' = nw
       /\ parsed' = parseSqlTemplate(strings, values, nw)
  /\ pc' = "parsed"
  /\ UNCHANGED <<comp, strings, values, sqlIn, skipCheck, validation,
               genVars, introVars,
                 connVars>>

\* sql`...`: returns the query wrapping the ParsedQuery, or throws the
\* validation errors
CallSql ==
  /\ comp \in {"compile", "query"} /\ pc = "start"
  /\ LET r == sql(strings, values) IN
       /\ parsed' = r.parsed
       /\ validation' = r.validation
       /\ queryError' = IF r.threw
                        THEN ErrInvalidSql(r.validation.errors, r.parsed.sql)
                        ELSE NoError
       /\ pc' = IF r.threw THEN "thrown" ELSE "returned"
  /\ UNCHANGED <<comp, strings, values, normalize, sqlIn, skipCheck,
                 genVars, introVars, globalConnection, shown, calls, sent,
                 lastCall, lifeVars, cmdVars, globalVars>>

\* The callers of a query: the sql tag is called with a short template,
\* and the query it returns is shown and executed.
MaxQueryItems == 2
MaxExecutes == 2

TxDropTable == <<";", " ", "D", "R", "O", "P", " ", "T", "A", "B", "L", "E", " ", "t">>
QueryItems == Items \cup {Lit(TxDropTable)}
QueryTemplates == UNION {[1..n -> QueryItems] : n \in 0..MaxQueryItems}

InitQuery ==
  /\ comp = "query"
  /\ pc = "start"
  /\ \E t \in QueryTemplates :
       /\ strings = TemplateStrings(t, 1, <<>>)
       /\ values = TemplateValues(t)
  /\ normalize = TRUE
  /\ parsed = NoParsed
  /\ sqlIn = <<>> /\ skipCheck = FALSE
  /\ validation = NoValidation
  /\ GenIdle /\ MatchIdle /\ QueryIdle
  /\ config = NoConfig /\ colArgs = NoColArgs
  /\ issued = <<>> /\ tablesResult = <<>> /\ columnsResult = <<>>
  /\ executed = 0 /\ tableRows = <<>> /\ columnRows = <<>>
  /\ tablesBySchema = <<>> /\ schemaIdx = 0 /\ allColumns = <<>>
  /\ thrown = NoError /\ rejection = NoError /\ testResult = FALSE
  /\ LifeIdle /\ CmdIdle /\ events = <<>> /\ pending = {}
  /\ \/ globalConnection = 0 /\ connected = FALSE
     \/ globalConnection = 1 /\ connected \in BOOLEAN

\* query.toSQL()
QueryToSQL ==
  /\ comp = "query" /\ pc = "returned"
  /\ shown' = parsed
  /\ UNCHANGED <<comp, pc, sqlVars, genVars, introVars, globalConnection,
                 queryError, calls, sent, lastCall, lifeVars, cmdVars,
                 globalVars>>

\* await query.execute(): getConnection throws, or the global connection's
\* execute is called with this.parsed.sql and this.parsed.params and
\* resolves or rejects
QueryExecute ==
  /\ comp = "query" /\ pc = "returned"
  /\ calls < MaxExecutes
  /\ calls' = calls + 1
  /\ IF globalConnection = 0
     THEN /\ queryError' = ErrNoConnection
          /\ UNCHANGED sent
     ELSE /\ sent' = Append(sent, [conn |-> globalConnection,
                                   sql |-> parsed.sql,
                                   params |-> parsed.params])
          /\ \/ queryError' = ExecuteError(connected, parsed.sql)
             \/ connected /\ queryError' = NoError
  /\ UNCHANGED <<comp, pc, sqlVars, genVars, introVars, globalConnection,
                 shown, lastCall, lifeVars, cmdVars, globalVars>>

RECURSIVE ConcatAll(_)
ConcatAll(parts) ==
  IF parts = <<>> THEN <<>> ELSE Head(parts) \o ConcatAll(Tail(parts))

\* The sql arguments of direct validateSql calls: strings of parentheses,
\* and statements that chain a keyword after a separator.
MaxParenLen == 4
MaxSpaces == 1

ParenInputs == UNION {[1..n -> {"(", ")", "x"}] : n \in 0..MaxParenLen}

SpaceRuns == UNION {[1..n -> {" ", "\n"}] : n \in 0..MaxSpaces}

StatementHeads == {<<>>, <<"(">>, <<")">>}
Separators == {<<";">>, <<"x">>}
FirstWords == {<<"D", "R", "O", "P">>, <<"d", "R", "o", "P">>, <<"D", "E", "L", "E", "T", "E">>, <<"t", "r", "u", "n", "c", "a", "t", "e">>, <<"A", "l", "t", "e", "r">>, <<"S", "E", "L", "E", "C", "T">>}
SecondWords == {<<>>, <<"F", "R", "O", "M">>, <<"f", "r", "o", "m">>, <<"t">>}

ChainedInputs ==
  {h \o sep \o w1 \o k1 \o w2 \o k2 \o w3 :
     h \in StatementHeads, sep \in Separators, k1 \in FirstWords,
     k2 \in SecondWords, w1 \in SpaceRuns, w2 \in SpaceRuns, w3 \in SpaceRuns}

\* several statements in a row, some of them destructive, some repeated
MaxStatements == 3

Statements ==
  {<<";", " ", "D", "R", "O", "P", " ", "t">>, <<";", "d", "r", "o", "p", "\n", "x">>,
   <<";", " ", "D", "E", "L", "E", "T", "E", " ", "F", "R", "O", "M", " ", "t">>,
   <<";", "T", "R", "U", "N", "C", "A", "T", "E", " ", "t">>, <<";", " ", "A", "L", "T", "E", "R", " ", "t">>,
   <<";", " ", "S", "E", "L", "E", "C", "T", " ", "(", "1">>, <<")">>}
StatementRuns ==
  {ConcatAll(run) : run \in UNION {[1..n -> Statements] : n \in 1..MaxStatements}}

SqlInputs == ParenInputs \cup ChainedInputs \cup StatementRuns

InitValidate ==
  /\ comp = "validate"
  /\ pc = "start"
  /\ sqlIn \in SqlInputs
  /\ skipCheck \in BOOLEAN
  /\ strings = <<>> /\ values = <<>> /\ normalize = TRUE
  /\ parsed = NoParsed
  /\ validation = NoValidation
  /\ GenIdle /\ IntroIdle /\ MatchIdle /\ connected = FALSE
  /\ ConnIdle

\* a direct call validateSql(sqlIn, {skipDangerousPatternCheck: skipCheck})
CallValidateSql ==
  /\ comp = "validate" /\ pc = "start"
  /\ validation' = validateSql(sqlIn, skipCheck)
  /\ pc' = "validated"
  /\ UNCHANGED <<comp, strings, values, normalize, parsed, sqlIn, skipCheck,
               genVars, introVars,
                 connVars>>

----------------------------------------------------------------------------
(* The rows of INFORMATION_SCHEMA the metadata executor returns; the       *)
(* fields are those the code reads.                                        *)

MaxTables == 2
MaxColumns == 2

NameDb == <<"D", "B">>
NameCore == <<"C", "O", "R", "E">>
NameRaw2 == <<"R", "A", "W", "_", "2">>
NameUsers == <<"U", "S", "E", "R", "S">>
NameOrderItems == <<"O", "R", "D", "E", "R", "_", "I", "T", "E", "M", "S">>
NameEvents == <<"E", "V", "E", "N", "T", "S">>
NameBaseTable == <<"B", "A", "S", "E", " ", "T", "A", "B", "L", "E">>
NameView == <<"V", "I", "E", "W">>
NoComment == <<>>
SomeComment == <<"w", "h", "o", "?">>

TableRow(schema, name, type, comment) ==
  [table_catalog |-> NameDb, table_schema |-> schema, table_name |-> name,
   table_type |-> type, comment |-> comment]

TableUniverse ==
  {TableRow(NameCore, NameUsers, NameBaseTable, SomeComment),
   TableRow(NameCore, NameOrderItems, NameView, NoComment),
   TableRow(NameRaw2, NameEvents, NameBaseTable, NoComment)}

ColumnRow(schema, table, name, ordinal, nullable, type, comment) ==
  [table_catalog |-> NameDb, table_schema |-> schema, table_name |-> table,
   column_name |-> name, ordinal_position |-> ordinal,
   is_nullable |-> nullable, data_type |-> type, comment |-> comment]

ColumnUniverse ==
  {ColumnRow(NameCore, NameUsers, <<"U", "S", "E", "R", "_", "I", "D">>, 1, "NO",
             <<"N", "U", "M", "B", "E", "R", "(", "3", "8", ",", "0", ")">>, NoComment),
   ColumnRow(NameCore, NameUsers, <<"E", "M", "A", "I", "L">>, 2, "YES",
             <<"v", "a", "r", "c", "h", "a", "r">>, SomeComment),
   ColumnRow(NameCore, NameOrderItems, <<"Q", "T", "Y">>, 1, "YES",
             <<"G", "E", "O", "I", "D">>, NoComment),
   ColumnRow(NameRaw2, NameEvents, <<"P", "A", "Y", "L", "O", "A", "D">>, 1, "YES",
             <<"V", "A", "R", "I", "A", "N", "T">>, NoComment)}

TableLists == UNION {[1..n -> TableUniverse] : n \in 0..MaxTables}

\* table lists that name a schema in two spellings (quoted identifiers keep
\* their case)
NameCoreLower == <<"c", "o", "r", "e">>
TwoSpellings ==
  {TableRow(NameCore, NameUsers, NameBaseTable, SomeComment),
   TableRow(NameCoreLower, NameUsers, NameBaseTable, NoComment)}
RecordTableLists ==
  TableLists \cup UNION {[1..n -> TwoSpellings] : n \in 0..MaxTables}
ColumnLists == UNION {[1..n -> ColumnUniverse] : n \in 0..MaxColumns}

----------------------------------------------------------------------------
(* The callers of mapType: a generator built with some overrides is asked  *)
(* for the type of a spelled Snowflake type.                               *)

MaxTypeToks == 3

KeyVarchar == <<"V", "A", "R", "C", "H", "A", "R">>
KeyFoo == <<"F", "O", "O">>
KeyVarcharLower == <<"v", "a", "r", "c", "h", "a", "r">>
TsText == <<"T", "e", "x", "t">>

OverrideKeys == {KeyVarchar, KeyFoo, KeyVarcharLower}
OverrideValues == {<<>>, TsText}
OverrideMaps == UNION {[ks -> OverrideValues] : ks \in SUBSET OverrideKeys}

TypeToks ==
  {KeyVarchar, KeyVarcharLower, KeyFoo, <<"N", "u", "m", "b", "e", "r">>,
   <<"(">>, <<")">>, <<"8">>, <<" ">>}

RECURSIVE Concat(_, _)
Concat(parts, k) ==
  IF k > Len(parts) THEN <<>> ELSE parts[k] \o Concat(parts, k + 1)

TypeInputs == {Concat(ts, 1) : ts \in UNION {[1..n -> TypeToks] : n \in 0..MaxTypeToks}}

InitMapType ==
  /\ comp = "mapType"
  /\ pc = "start"
  /\ typeOverrides \in OverrideMaps
  /\ typeMapping = TypeGeneratorNew(typeOverrides)
  /\ snowflakeType \in TypeInputs
  /\ mappedType = <<>>
  /\ tables = <<>> /\ columns = <<>> /\ interfaces = <<>>
  /\ iface = NoInterface /\ code = <<>>
  /\ SqlIdle /\ IntroIdle /\ MatchIdle /\ connected = FALSE
  /\ ConnIdle

\* a call generator.mapType(snowflakeType)
CallMapType ==
  /\ comp = "mapType" /\ pc = "start"
  /\ mappedType' = mapType(typeMapping, snowflakeType)
  /\ pc' = "mapped"
  /\ UNCHANGED <<comp, typeOverrides, typeMapping, snowflakeType, tables,
                 columns, interfaces, iface, code, sqlVars, introVars,
                 connVars>>

----------------------------------------------------------------------------
(* The callers of the code emitter, as the generate command drives it.     *)

GenerateOverrides == {<<>>, (KeyVarchar :> TsText)}

InitGenerate ==
  /\ comp = "generate"
  /\ pc = "start"
  /\ typeOverrides \in GenerateOverrides
  /\ typeMapping = TypeGeneratorNew(typeOverrides)
  /\ snowflakeType = <<>> /\ mappedType = <<>>
  /\ tables = <<>> /\ columns = <<>> /\ interfaces = <<>>
  /\ iface = NoInterface /\ code = <<>>
  /\ SqlIdle /\ IntroIdle /\ MatchIdle /\ connected = FALSE
  /\ ConnIdle

\* generate: tables.map((table) => generateInterface(table,
\* columns.filter(same schema and same table name)))
GenerateInterfaces ==
  /\ comp = "generate" /\ pc = "start"
  /\ \E ts \in RecordTableLists, cs \in ColumnLists :
       /\ tables' = ts
       /\ columns' = cs
       /\ interfaces' =
            [k \in 1..Len(ts) |->
               generateInterface(typeMapping, ts[k],
                 SelectSeq(cs, LAMBDA c :
                   /\ c.table_schema = ts[k].table_schema
                   /\ c.table_name = ts[k].table_name))]
  /\ pc' = "interfaces"
  /\ UNCHANGED <<comp, typeOverrides, typeMapping, snowflakeType, mappedType,
                 iface, code, sqlVars, introVars,
                 connVars>>

\* a call generator.generateInterfaceCode(interfaces[k])
CallGenerateInterfaceCode ==
  /\ comp = "generate" /\ pc = "interfaces"
  /\ \E k \in 1..Len(interfaces) :
       /\ iface' = interfaces[k]
       /\ code' = generateInterfaceCode(interfaces[k])
  /\ pc' = "code"
  /\ UNCHANGED <<comp, typeOverrides, typeMapping, snowflakeType, mappedType,
                 tables, columns, interfaces, sqlVars, introVars,
                 connVars>>

\* generate: generator.generateFile(interfaces)
CallGenerateFile ==
  /\ comp = "generate" /\ pc = "interfaces"
  /\ code' = generateFile(interfaces)
  /\ pc' = "file"
  /\ UNCHANGED <<comp, typeOverrides, typeMapping, snowflakeType, mappedType,
                 tables, columns, interfaces, iface, sqlVars, introVars,
                 connVars>>

----------------------------------------------------------------------------
(* The callers of the introspector.  connection.execute either resolves    *)
(* with rows or rejects.                                                   *)

MaxSchemas == 2
MaxTableNames == 2
MaxPatterns == 1

\* an upper-case name, a name with lower-case letters, and an upper-case name
\* with a character that is no letter, digit or underscore
SchemaNames ==
  {NameCore, <<"M", "y", "_", "S", "c", "h", "e", "m", "a", "2">>,
   <<"A", "$", "1">>}
TableNames ==
  {NameUsers, <<"O", "r", "d", "e", "r", "_", "I", "t", "e", "m", "s">>,
   <<"T", "$">>}
Patterns ==
  {<<"U", "S", "E", "R", "*">>, <<"?", "v", "e", "n", "t", "s">>,
   <<"U", "S", "E", "R", ".">>}

SchemaLists == UNION {[1..n -> SchemaNames] : n \in 0..MaxSchemas}
TableNameLists == UNION {[1..n -> TableNames] : n \in 0..MaxTableNames}
PatternLists == UNION {[1..n -> Patterns] : n \in 0..MaxPatterns}

Configs ==
  [database : {NameDb}, schemas : SchemaLists, includeTables : PatternLists,
   excludeTables : PatternLists]

ColumnArgs == [database : {NameDb}, schema : SchemaNames, tables : TableNameLists]

InitIntrospect ==
  /\ comp = "introspect"
  /\ pc = "start"
  /\ connected \in BOOLEAN
  /\ IntroIdle /\ MatchIdle
  /\ ConnIdle
  /\ SqlIdle /\ GenIdle

\* the rows a column query for one schema can return: rows of that schema
ColumnResponses(schema) ==
  UNION {[1..n -> {c \in ColumnUniverse : c.table_schema = schema}] :
           n \in 0..MaxColumns}

\* getTables(config) up to its await: the query goes to connection.execute
GetTablesIssue ==
  /\ comp = "introspect" /\ pc = "start"
  /\ \E cfg \in Configs :
       /\ config' = cfg
       /\ issued' = Append(issued, TablesQuery(cfg))
  /\ pc' = "getTables"
  /\ UNCHANGED <<comp, colArgs, tablesResult, columnsResult, connected,
                 executed, tableRows, columnRows, tablesBySchema, schemaIdx,
                 allColumns, thrown, rejection, testResult, matchVars, sqlVars, genVars,
                 connVars>>

\* getTables after its await: the rows are filtered and returned
GetTablesResolve ==
  /\ comp = "introspect" /\ pc = "getTables"
  /\ connected
  /\ \E rows \in TableLists :
       /\ tableRows' = rows
       /\ tablesResult' = FilterTables(rows, config)
  /\ executed' = executed + 1
  /\ pc' = "tables"
  /\ UNCHANGED <<comp, config, colArgs, issued, columnsResult, connected,
                 columnRows, tablesBySchema, schemaIdx, allColumns, thrown,
                 rejection, testResult, matchVars, sqlVars, genVars,
                 connVars>>

\* getTables when connection.execute rejects: the error propagates
GetTablesReject ==
  /\ comp = "introspect" /\ pc = "getTables"
  /\ thrown' = ExecuteError(connected, issued[Len(issued)])
  /\ rejection' = thrown'
  /\ pc' = "rejected"
  /\ UNCHANGED <<comp, config, colArgs, issued, tablesResult, columnsResult,
                 connected, executed, tableRows, columnRows, tablesBySchema,
                 schemaIdx, allColumns, testResult, matchVars, sqlVars, genVars,
                 connVars>>

\* getColumns(database, schema, tables) up to its await
GetColumnsIssue ==
  /\ comp = "introspect" /\ pc = "start"
  /\ \E a \in ColumnArgs :
       /\ colArgs' = a
       /\ issued' = Append(issued, ColumnsQuery(a.database, a.schema, a.tables))
  /\ pc' = "getColumns"
  /\ UNCHANGED <<comp, config, tablesResult, columnsResult, connected,
                 executed, tableRows, columnRows, tablesBySchema, schemaIdx,
                 allColumns, thrown, rejection, testResult, matchVars, sqlVars, genVars,
                 connVars>>

\* getColumns after its await: result.rows is returned as it is
GetColumnsResolve ==
  /\ comp = "introspect" /\ pc = "getColumns"
  /\ connected
  /\ \E rows \in ColumnResponses(colArgs.schema) :
       /\ columnRows' = Append(columnRows, rows)
       /\ columnsResult' = rows
  /\ executed' = executed + 1
  /\ pc' = "columns"
  /\ UNCHANGED <<comp, config, colArgs, issued, tablesResult, connected,
                 tableRows, tablesBySchema, schemaIdx, allColumns, thrown,
                 rejection, testResult, matchVars, sqlVars, genVars,
                 connVars>>

\* getColumns when connection.execute rejects: the error propagates
GetColumnsReject ==
  /\ comp = "introspect" /\ pc = "getColumns"
  /\ thrown' = ExecuteError(connected, issued[Len(issued)])
  /\ rejection' = thrown'
  /\ pc' = "rejected"
  /\ UNCHANGED <<comp, config, colArgs, issued, tablesResult, columnsResult,
                 connected, executed, tableRows, columnRows, tablesBySchema,
                 schemaIdx, allColumns, testResult, matchVars, sqlVars, genVars,
                 connVars>>

\* the configurations getAllColumns is called with
AllColumnsConfigs ==
  {[database |-> NameDb, schemas |-> <<NameCore, NameRaw2>>,
    includeTables |-> inc, excludeTables |-> exc] :
     inc \in {<<>>, <<<<"U", "S", "E", "R", "*">>>>},
     exc \in {<<>>, <<<<"?", "v", "e", "n", "t", "s">>>>}}

\* getAllColumns(config) up to the await inside its getTables call
GetAllColumnsIssue ==
  /\ comp = "introspect" /\ pc = "start"
  /\ \E cfg \in AllColumnsConfigs :
       /\ config' = cfg
       /\ issued' = Append(issued, TablesQuery(cfg))
  /\ pc' = "all.getTables"
  /\ UNCHANGED <<comp, colArgs, tablesResult, columnsResult, connected,
                 executed, tableRows, columnRows, tablesBySchema, schemaIdx,
                 allColumns, thrown, rejection, testResult, matchVars, sqlVars, genVars,
                 connVars>>

\* a variant that starts the column queries of all schemas together
GetAllColumnsTablesAtOnce ==
  /\ comp = "introspect" /\ pc = "all.getTables"
  /\ connected
  /\ \E rows \in TableLists :
       LET tbls == FilterTables(rows, config)
           groups == GroupBySchema(tbls, 1, <<>>)
       IN /\ tableRows' = rows
          /\ tablesResult' = tbls
          /\ tablesBySchema' = groups
          /\ IF Len(groups) = 0
             THEN /\ pc' = "allColumns"
                  /\ UNCHANGED <<issued, schemaIdx>>
             ELSE /\ pc' = "all.getColumns"
                  /\ schemaIdx' = 1
                  /\ issued' = issued \o
                       [k \in 1..Len(groups) |->
                          ColumnsQuery(config.database, groups[k].schema,
                                       groups[k].tables)]
  /\ executed' = executed + 1
  /\ UNCHANGED <<comp, config, colArgs, columnsResult, connected, columnRows,
                 allColumns, thrown, rejection, testResult, matchVars, sqlVars, genVars,
                 connVars>>

\* getAllColumns when its table query resolves: getTables filters and
\* returns, the tables are grouped by schema, and either the column query
\* of the first schema goes to connection.execute or, without any schema,
\* the empty list is returned
GetAllColumnsTables ==
  /\ comp = "introspect" /\ pc = "all.getTables"
  /\ connected
  /\ \E rows \in TableLists :
       LET tbls == FilterTables(rows, config)
           groups == GroupBySchema(tbls, 1, <<>>)
       IN /\ tableRows' = rows
          /\ tablesResult' = tbls
          /\ tablesBySchema' = groups
          /\ IF Len(groups) = 0
             THEN /\ pc' = "allColumns"
                  /\ UNCHANGED <<issued, schemaIdx>>
             ELSE /\ pc' = "all.getColumns"
                  /\ schemaIdx' = 1
                  /\ issued' = Append(issued,
                       ColumnsQuery(config.database, groups[1].schema,
                                    groups[1].tables))
  /\ executed' = executed + 1
  /\ UNCHANGED <<comp, config, colArgs, columnsResult, connected, columnRows,
                 allColumns, thrown, rejection, testResult, matchVars, sqlVars, genVars,
                 connVars>>

\* getAllColumns when a column query resolves: the rows are pushed, and
\* either the query of the next schema goes to connection.execute or
\* allColumns is returned
GetAllColumnsColumns ==
  /\ comp = "introspect" /\ pc = "all.getColumns"
  /\ connected
  /\ \E rows \in ColumnResponses(tablesBySchema[schemaIdx].schema) :
       /\ columnRows' = Append(columnRows, rows)
       /\ allColumns' = PushAll(allColumns, rows)
       /\ IF schemaIdx < Len(tablesBySchema)
          THEN /\ pc' = "all.getColumns"
               /\ schemaIdx' = schemaIdx + 1
               /\ issued' = Append(issued,
                    ColumnsQuery(config.database,
                                 tablesBySchema[schemaIdx + 1].schema,
                                 tablesBySchema[schemaIdx + 1].tables))
               /\ UNCHANGED columnsResult
          ELSE /\ pc' = "allColumns"
               /\ columnsResult' = PushAll(allColumns, rows)
               /\ UNCHANGED <<issued, schemaIdx>>
  /\ executed' = executed + 1
  /\ UNCHANGED <<comp, config, colArgs, tablesResult, connected, tableRows,
                 tablesBySchema, thrown, rejection, testResult, matchVars,
                 sqlVars, genVars,
                 connVars>>

\* a variant that returns the rows fetched so far along with the failure
GetAllColumnsRejectWithRows ==
  /\ comp = "introspect" /\ pc \in {"all.getTables", "all.getColumns"}
  /\ thrown' = ExecuteError(connected, issued[Len(issued)])
  /\ rejection' = thrown'
  /\ columnsResult' = allColumns
  /\ pc' = "rejected"
  /\ UNCHANGED <<comp, config, colArgs, issued, tablesResult,
                 connected, executed, tableRows, columnRows, tablesBySchema,
                 schemaIdx, allColumns, testResult, matchVars, sqlVars, genVars,
                 connVars>>

\* getAllColumns when connection.execute rejects, in getTables or in a
\* getColumns: the error propagates
GetAllColumnsReject ==
  /\ comp = "introspect" /\ pc \in {"all.getTables", "all.getColumns"}
  /\ thrown' = ExecuteError(connected, issued[Len(issued)])
  /\ rejection' = thrown'
  /\ pc' = "rejected"
  /\ UNCHANGED <<comp, config, colArgs, issued, tablesResult, columnsResult,
                 connected, executed, tableRows, columnRows, tablesBySchema,
                 schemaIdx, allColumns, testResult, matchVars, sqlVars, genVars,
                 connVars>>

\* testConnection() up to its await
TestConnectionIssue ==
  /\ comp = "introspect" /\ pc = "start"
  /\ issued' = Append(issued, TxSelectOne)
  /\ pc' = "testConnection"
  /\ UNCHANGED <<comp, config, colArgs, tablesResult, columnsResult, connected,
                 executed, tableRows, columnRows, tablesBySchema, schemaIdx,
                 allColumns, thrown, rejection, testResult, matchVars, sqlVars, genVars,
                 connVars>>

\* testConnection when the query resolves: return true
TestConnectionResolve ==
  /\ comp = "introspect" /\ pc = "testConnection"
  /\ connected
  /\ executed' = executed + 1
  /\ testResult' = TRUE
  /\ pc' = "tested"
  /\ UNCHANGED <<comp, config, colArgs, issued, tablesResult, columnsResult,
                 connected, tableRows, columnRows, tablesBySchema, schemaIdx,
                 allColumns, thrown, rejection, matchVars, sqlVars, genVars,
                 connVars>>

\* a variant without the catch: the failure propagates
TestConnectionRethrow ==
  /\ comp = "introspect" /\ pc = "testConnection"
  /\ thrown' = ExecuteError(connected, issued[Len(issued)])
  /\ rejection' = thrown'
  /\ pc' = "rejected"
  /\ UNCHANGED <<comp, config, colArgs, issued, tablesResult, columnsResult,
                 connected, executed, tableRows, columnRows, tablesBySchema,
                 schemaIdx, allColumns, testResult, matchVars, sqlVars, genVars,
                 connVars>>

\* testConnection when the query rejects: the catch returns false
TestConnectionCatch ==
  /\ comp = "introspect" /\ pc = "testConnection"
  /\ thrown' = ExecuteError(connected, issued[Len(issued)])
  /\ testResult' = FALSE
  /\ pc' = "tested"
  /\ UNCHANGED <<comp, config, colArgs, issued, tablesResult, columnsResult,
                 connected, executed, tableRows, columnRows, tablesBySchema,
                 schemaIdx, allColumns, rejection, matchVars, sqlVars, genVars,
                 connVars>>

----------------------------------------------------------------------------
(* The callers of matchPattern: table names and patterns over a small      *)
(* alphabet, and the names and patterns of the documented scenario.        *)

MaxNameLen == 3
MaxGlobLen == 2

NameChars == {"A", "b", "_"}
GlobChars == {"a", "B", "*", "?", "."}

ScenarioNames ==
  {<<"E", "V", "E", "N", "T", "S", "_", "R", "A", "W">>,
   <<"U", "S", "E", "R", "_", "E", "V", "E", "N", "T", "S">>,
   <<"S", "T", "A", "G", "I", "N", "G", "_", "T", "E", "M", "P">>,
   <<"S", "T", "A", "G", "I", "N", "G", "_", "T", "E", "M", "P", "L", "A", "T", "E">>}
ScenarioGlobs ==
  {<<"E", "V", "E", "N", "T", "S", "*">>, <<"*", "_", "T", "E", "M", "P">>}

MatchNames == ScenarioNames \cup UNION {[1..n -> NameChars] : n \in 0..MaxNameLen}
MatchGlobs == ScenarioGlobs \cup UNION {[1..n -> GlobChars] : n \in 0..MaxGlobLen}

InitMatch ==
  /\ comp = "match"
  /\ pc = "start"
  /\ matchName \in MatchNames
  /\ matchGlob \in MatchGlobs
  /\ matchResult = FALSE
  /\ connected = FALSE
  /\ IntroIdle /\ SqlIdle /\ GenIdle
  /\ ConnIdle

\* a call matchPattern(matchName, matchGlob)
CallMatchPattern ==
  /\ comp = "match" /\ pc = "start"
  /\ matchResult' = matchPattern(matchName, matchGlob)
  /\ pc' = "matched"
  /\ UNCHANGED <<comp, matchName, matchGlob, config, colArgs, issued,
                 tablesResult, columnsResult, connected, executed, tableRows,
                 columnRows, tablesBySchema, schemaIdx, allColumns, thrown,
                 rejection, testResult, sqlVars, genVars,
                 connVars>>

----------------------------------------------------------------------------
(* The callers of generateInterface with one name: a table of that name    *)
(* with one column of that name.                                           *)

MaxIdentLen == 4

IdentChars == {"U", "s", "_", "2"}
Identifiers == UNION {[1..n -> IdentChars] : n \in 0..MaxIdentLen}

InitConvert ==
  /\ comp = "convert"
  /\ pc = "start"
  /\ typeOverrides = <<>>
  /\ typeMapping = TypeGeneratorNew(typeOverrides)
  /\ snowflakeType = <<>> /\ mappedType = <<>>
  /\ tables = <<>> /\ columns = <<>> /\ interfaces = <<>>
  /\ iface = NoInterface /\ code = <<>>
  /\ SqlIdle /\ IntroIdle /\ MatchIdle /\ connected = FALSE
  /\ ConnIdle

\* a call generator.generateInterface(table, [column])
ConvertIdentifier ==
  /\ comp = "convert" /\ pc = "start"
  /\ \E n \in Identifiers :
       LET table == TableRow(NameCore, n, NameBaseTable, NoComment)
           column == ColumnRow(NameCore, n, n, 1, "NO", KeyVarchar, NoComment)
       IN /\ tables' = <<table>>
          /\ columns' = <<column>>
          /\ interfaces' = <<generateInterface(typeMapping, table, <<column>>)>>
  /\ pc' = "converted"
  /\ UNCHANGED <<comp, typeOverrides, typeMapping, snowflakeType, mappedType,
                 iface, code, sqlVars, introVars,
                 connVars>>

----------------------------------------------------------------------------
(* Specifications                                                          *)

vars == <<comp, pc, sqlVars, genVars, introVars,
                 connVars>>

NextCompile == CallParseSqlTemplate \/ CallSql
SpecCompile == InitCompile /\ [][NextCompile]_vars

NextMetadata == CallParseSqlTemplate
SpecMetadata == InitMetadata /\ [][NextMetadata]_vars

\* The callers of a SnowflakeConnection: a new connection object and up
\* to MaxOps calls of connect, execute, executeRaw and close, each call
\* settled before the next is made.
MaxOps == 3

ConnectCodes == {"ENOTFOUND", "390100", "ETIMEDOUT", "390201", "390189", "OTHER"}

\* connect: the errorMessage chosen by the driver error's code
ConnectErrorMessage(errCode) ==
  CASE errCode = "ENOTFOUND" -> "Invalid Snowflake account"
    [] errCode = "390100" -> "Authentication failed for user"
    [] errCode = "ETIMEDOUT" -> "Connection timeout when connecting to Snowflake account"
    [] errCode = "390201" -> "Invalid warehouse"
    [] errCode = "390189" -> "Invalid database or schema"
    [] OTHER -> "Failed to connect to Snowflake"

ErrConnectFailed(errCode) == [message |-> ConnectErrorMessage(errCode), sql |-> <<>>]
ErrCreateFailed == [message |-> "Failed to create Snowflake connection", sql |-> <<>>]
ErrStatementFailed == [message |-> "Statement execution failed", sql |-> <<>>]
ErrCloseFailed == [message |-> "Failed to close connection", sql |-> <<>>]

ConnTexts == {TxSelectOne, TxDropTable}

\* what a call did: the state it found, the error it settled with and
\* the driver calls it made
Call(name, err, made) ==
  [op |-> name, wasOpen |-> opened, wasSet |-> connected, error |-> err,
   driver |-> made]

InitConnection ==
  /\ comp = "connection"
  /\ pc = "start"
  /\ connected = FALSE
  /\ SqlIdle /\ GenIdle /\ MatchIdle /\ ConnIdle
  /\ config = NoConfig /\ colArgs = NoColArgs
  /\ issued = <<>> /\ tablesResult = <<>> /\ columnsResult = <<>>
  /\ executed = 0 /\ tableRows = <<>> /\ columnRows = <<>>
  /\ tablesBySchema = <<>> /\ schemaIdx = 0 /\ allColumns = <<>>
  /\ thrown = NoError /\ rejection = NoError /\ testResult = FALSE

ConnFrame ==
  UNCHANGED <<comp, pc, sqlVars, genVars, config, colArgs, issued,
              tablesResult, columnsResult, executed, tableRows, columnRows,
              tablesBySchema, schemaIdx, allColumns, thrown, rejection,
              testResult, matchVars, globalConnection, queryVars, cmdVars,
              globalVars>>

\* await connection.connect(): this.connection is assigned the object
\* createConnection returned, then the driver's connect calls back
ConnConnect ==
  /\ comp = "connection" /\ calls < MaxOps
  /\ calls' = calls + 1
  /\ \/ /\ driverLog' = Append(driverLog, "createConnection")
        /\ lastCall' = Call("connect", ErrCreateFailed, <<"createConnection">>)
        /\ UNCHANGED <<connected, opened>>
     \/ \E errCode \in ConnectCodes :
          /\ driverLog' = driverLog \o <<"createConnection", "connect">>
          /\ connected' = TRUE
          /\ lastCall' = Call("connect", ErrConnectFailed(errCode),
                              <<"createConnection", "connect">>)
          /\ UNCHANGED opened
     \/ /\ driverLog' = driverLog \o <<"createConnection", "connect">>
        /\ connected' = TRUE
        /\ opened' = TRUE
        /\ lastCall' = Call("connect", NoError, <<"createConnection", "connect">>)
  /\ ConnFrame

\* await connection.execute(sqlText)
ConnExecute ==
  /\ comp = "connection" /\ calls < MaxOps
  /\ calls' = calls + 1
  /\ \E sqlText \in ConnTexts :
       IF ~connected
       THEN /\ lastCall' = Call("execute", ErrNotConnected, <<>>)
            /\ UNCHANGED driverLog
       ELSE /\ driverLog' = Append(driverLog, "execute")
            /\ \E err \in {NoError, ErrQueryFailed(sqlText)} :
                 lastCall' = Call("execute", err, <<"execute">>)
  /\ UNCHANGED <<connected, opened>>
  /\ ConnFrame

\* await connection.executeRaw(sqlText)
ConnExecuteRaw ==
  /\ comp = "connection" /\ calls < MaxOps
  /\ calls' = calls + 1
  /\ \E sqlText \in ConnTexts :
       IF ~connected
       THEN /\ lastCall' = Call("executeRaw", ErrNotConnected, <<>>)
            /\ UNCHANGED driverLog
       ELSE /\ driverLog' = Append(driverLog, "execute")
            /\ \E err \in {NoError, ErrStatementFailed} :
                 lastCall' = Call("executeRaw", err, <<"execute">>)
  /\ UNCHANGED <<connected, opened>>
  /\ ConnFrame

\* await connection.close()
ConnClose ==
  /\ comp = "connection" /\ calls < MaxOps
  /\ calls' = calls + 1
  /\ IF ~connected
     THEN /\ lastCall' = Call("close", NoError, <<>>)
          /\ opened' = FALSE
          /\ UNCHANGED <<connected, driverLog>>
     ELSE /\ driverLog' = Append(driverLog, "destroy")
          /\ \/ /\ lastCall' = Call("close", ErrCloseFailed, <<"destroy">>)
                /\ UNCHANGED <<connected, opened>>
             \/ /\ lastCall' = Call("close", NoError, <<"destroy">>)
                /\ connected' = FALSE
                /\ opened' = FALSE
  /\ ConnFrame

NextConnection == ConnConnect \/ ConnExecute \/ ConnExecuteRaw \/ ConnClose
SpecConnection == InitConnection /\ [][NextConnection]_vars

\* The generate command: one run of generate(options) with a loaded
\* configuration, each awaited call settling either way.

\* getAllColumns: the rows of the column queries pushed in order, from
\* the k-th on
RECURSIVE PushEach(_, _, _)
PushEach(acc, lists, k) ==
  IF k > Len(lists) THEN acc ELSE PushEach(PushAll(acc, lists[k]), lists, k + 1)

\* what the column queries of getAllColumns can return: for each schema
\* of tablesBySchema, from the k-th on, rows of that schema
RECURSIVE ColumnResponseRuns(_, _)
ColumnResponseRuns(groups, k) ==
  IF k > Len(groups) THEN {<<>>}
  ELSE {<<rows>> \o rest : rows \in ColumnResponses(groups[k].schema),
                           rest \in ColumnResponseRuns(groups, k + 1)}

ErrTestFailed == [message |-> "Failed to connect to Snowflake", sql |-> <<>>]
ErrFileSystem == [message |-> "file system error", sql |-> <<>>]

InitCommand ==
  /\ comp = "command"
  /\ pc = "start"
  /\ config \in AllColumnsConfigs
  /\ typeOverrides \in GenerateOverrides
  /\ typeMapping = <<>>
  /\ snowflakeType = <<>> /\ mappedType = <<>>
  /\ tables = <<>> /\ columns = <<>> /\ interfaces = <<>>
  /\ iface = NoInterface /\ code = <<>>
  /\ colArgs = NoColArgs
  /\ issued = <<>> /\ tablesResult = <<>> /\ columnsResult = <<>>
  /\ executed = 0 /\ tableRows = <<>> /\ columnRows = <<>>
  /\ tablesBySchema = <<>> /\ schemaIdx = 0 /\ allColumns = <<>>
  /\ thrown = NoError /\ rejection = NoError /\ testResult = FALSE
  /\ connected = FALSE
  /\ SqlIdle /\ MatchIdle /\ ConnIdle

CmdFrame ==
  UNCHANGED <<comp, sqlVars, config, typeOverrides, snowflakeType, mappedType,
              iface, colArgs, issued, tablesResult, columnsResult, executed,
              tableRows, columnRows, tablesBySchema, schemaIdx, allColumns,
              matchVars, globalConnection, calls, lastCall, queryVars,
              driverLog, pending>>

\* a variant in which an error leaves the command without the finally block
ThrowPastFinally(err) == thrown' = err /\ pc' = "settled"

\* an error thrown inside the try block: control goes to the finally block
Throw(err) == thrown' = err /\ pc' = "finally"

\* await connection.connect(), before the try block
CmdConnect ==
  /\ comp = "command" /\ pc = "start"
  /\ \/ /\ connected' = TRUE /\ opened' = TRUE
        /\ events' = Append(events, <<"connect", "resolved">>)
        /\ pc' = "connected"
        /\ UNCHANGED <<thrown, rejection>>
     \/ \E errCode \in ConnectCodes :
          /\ connected' = TRUE
          /\ events' = Append(events, <<"connect", "rejected">>)
          /\ thrown' = ErrConnectFailed(errCode)
          /\ rejection' = thrown'
          /\ pc' = "settled"
          /\ UNCHANGED opened
     \/ /\ events' = Append(events, <<"connect", "rejected">>)
        /\ thrown' = ErrCreateFailed
        /\ rejection' = thrown'
        /\ pc' = "settled"
        /\ UNCHANGED <<connected, opened>>
  /\ UNCHANGED <<typeMapping, tables, columns, interfaces, code, testResult,
                 cmdVars>>
  /\ CmdFrame

\* const isConnected = await introspector.testConnection();
\* if (!isConnected) throw new Error('Failed to connect to Snowflake')
CmdTestConnection ==
  /\ comp = "command" /\ pc = "connected"
  /\ \E isConnected \in BOOLEAN :
       /\ testResult' = isConnected
       /\ events' = Append(events, <<"testConnection", isConnected>>)
       /\ IF isConnected
          THEN pc' = "tested" /\ UNCHANGED thrown
          ELSE Throw(ErrTestFailed)
  /\ UNCHANGED <<typeMapping, tables, columns, interfaces, code, rejection,
                 connected, opened, cmdVars>>
  /\ CmdFrame

\* const tables = await introspector.getTables(introspectionConfig)
CmdGetTables ==
  /\ comp = "command" /\ pc = "tested"
  /\ \/ \E rows \in TableLists :
          /\ tables' = FilterTables(rows, config)
          /\ events' = Append(events, <<"getTables", "resolved">>)
          /\ pc' = "tables"
          /\ UNCHANGED thrown
     \/ /\ events' = Append(events, <<"getTables", "rejected">>)
        /\ Throw(ErrQueryFailed(TablesQuery(config)))
        /\ UNCHANGED tables
  /\ UNCHANGED <<typeMapping, columns, interfaces, code, rejection, testResult,
                 connected, opened, cmdVars>>
  /\ CmdFrame

\* const columns = await introspector.getAllColumns(introspectionConfig):
\* its own table query, then one column query per schema of its tables
CmdGetAllColumns ==
  /\ comp = "command" /\ pc = "tables"
  /\ \/ \E rows \in TableLists :
          LET groups == GroupBySchema(FilterTables(rows, config), 1, <<>>) IN
          \E resp \in ColumnResponseRuns(groups, 1) :
            /\ columns' = PushEach(<<>>, resp, 1)
            /\ events' = Append(events, <<"getAllColumns", "resolved">>)
            /\ pc' = "columns"
            /\ UNCHANGED thrown
     \/ /\ events' = Append(events, <<"getAllColumns", "rejected">>)
        /\ Throw(ErrQueryFailed(TablesQuery(config)))
        /\ UNCHANGED columns
  /\ UNCHANGED <<typeMapping, tables, interfaces, code, rejection, testResult,
                 connected, opened, cmdVars>>
  /\ CmdFrame

\* new TypeGenerator(config.typeOverrides); tables.map((table) =>
\* generateInterface(table, columns.filter(same schema, same table name)));
\* generateFile(interfaces)
CmdGenerate ==
  /\ comp = "command" /\ pc = "columns"
  /\ typeMapping' = TypeGeneratorNew(typeOverrides)
  /\ interfaces' =
       [k \in 1..Len(tables) |->
          generateInterface(typeMapping', tables[k],
            SelectSeq(columns, LAMBDA c :
              /\ c.table_schema = tables[k].table_schema
              /\ c.table_name = tables[k].table_name))]
  /\ code' = generateFile(interfaces')
  /\ pc' = "generated"
  /\ UNCHANGED <<tables, columns, thrown, rejection, testResult, connected,
                 opened, cmdVars, events>>
  /\ CmdFrame

\* await mkdir(dirname(outputPath), { recursive: true })
CmdMkdir ==
  /\ comp = "command" /\ pc = "generated"
  /\ \/ /\ events' = Append(events, <<"mkdir", "resolved">>)
        /\ pc' = "directory"
        /\ UNCHANGED thrown
     \/ /\ events' = Append(events, <<"mkdir", "rejected">>)
        /\ Throw(ErrFileSystem)
  /\ UNCHANGED <<typeMapping, tables, columns, interfaces, code, rejection,
                 testResult, connected, opened, cmdVars>>
  /\ CmdFrame

\* await writeFile(outputPath, generatedCode, 'utf-8'); the try block ends
CmdWriteFile ==
  /\ comp = "command" /\ pc = "directory"
  /\ \/ /\ written' = [exists |-> TRUE, code |-> code, interfaces |-> interfaces]
        /\ events' = Append(events, <<"writeFile", "resolved">>)
        /\ pc' = "finally"
        /\ UNCHANGED thrown
     \/ /\ events' = Append(events, <<"writeFile", "rejected">>)
        /\ Throw(ErrFileSystem)
        /\ UNCHANGED written
  /\ UNCHANGED <<typeMapping, tables, columns, interfaces, code, rejection,
                 testResult, connected, opened, closeCalls>>
  /\ CmdFrame

\* finally { await connection.close() }: the command settles with the
\* error of the try block, or with that of close() when close() fails
CmdFinally ==
  /\ comp = "command" /\ pc = "finally"
  /\ closeCalls' = closeCalls + 1
  /\ \/ /\ events' = Append(events, <<"close", "resolved">>)
        /\ connected' = FALSE /\ opened' = FALSE
        /\ rejection' = thrown
     \/ /\ events' = Append(events, <<"close", "rejected">>)
        /\ rejection' = ErrCloseFailed
        /\ UNCHANGED <<connected, opened>>
  /\ pc' = "settled"
  /\ UNCHANGED <<typeMapping, tables, columns, interfaces, code, thrown,
                 testResult, written>>
  /\ CmdFrame

NextCommand ==
  \/ CmdConnect \/ CmdTestConnection \/ CmdGetTables \/ CmdGetAllColumns
  \/ CmdGenerate \/ CmdMkdir \/ CmdWriteFile \/ CmdFinally
SpecCommand == InitCommand /\ [][NextCommand]_vars

\* The callers of the module's global connection: up to MaxGlobalCalls
\* calls of setConnection, configureConnection and getConnection, the
\* connects of configureConnection settling in any order in between.
MaxGlobalCalls == 4

\* connection objects the caller made itself
OwnConnections == {1, 2}

\* the connection object the next configureConnection call makes
NewConnection == 10 + Cardinality({i \in 1..Len(events) :
                                     events[i][1] = "configureConnection"})

\* the objects configureConnection has returned to the caller
Returned == {events[i][2] : i \in {h \in 1..Len(events) :
                                     events[h][1] = "connect resolved"}}

InitGlobal ==
  /\ comp = "global"
  /\ pc = "start"
  /\ connected = FALSE
  /\ SqlIdle /\ GenIdle /\ IntroIdle /\ MatchIdle /\ ConnIdle

GlobalFrame ==
  UNCHANGED <<comp, pc, sqlVars, genVars, introVars, queryVars, lifeVars,
              cmdVars>>

\* setConnection(connection): globalConnection = connection
SetConnection ==
  /\ comp = "global" /\ calls < MaxGlobalCalls
  /\ calls' = calls + 1
  /\ \E conn \in OwnConnections \cup Returned :
       /\ globalConnection' = conn
       /\ events' = Append(events, <<"setConnection", conn>>)
  /\ UNCHANGED <<lastCall, pending>>
  /\ GlobalFrame

\* getConnection(): throws when globalConnection is null
GetConnection ==
  /\ comp = "global" /\ calls < MaxGlobalCalls
  /\ calls' = calls + 1
  /\ lastCall' = [op |-> "getConnection", at |-> Len(events),
                  error |-> IF globalConnection = 0 THEN ErrNoConnection
                            ELSE NoError,
                  conn |-> globalConnection]
  /\ UNCHANGED <<globalConnection, events, pending>>
  /\ GlobalFrame

\* a variant that makes the new connection global before it is connected
ConfigureIssueSetFirst ==
  /\ comp = "global" /\ calls < MaxGlobalCalls
  /\ calls' = calls + 1
  /\ pending' = pending \cup {NewConnection}
  /\ globalConnection' = NewConnection
  /\ events' = Append(events, <<"configureConnection", NewConnection>>)
  /\ UNCHANGED lastCall
  /\ GlobalFrame

\* configureConnection(config) up to its await: new SnowflakeConnection,
\* conn.connect() started
ConfigureIssue ==
  /\ comp = "global" /\ calls < MaxGlobalCalls
  /\ calls' = calls + 1
  /\ pending' = pending \cup {NewConnection}
  /\ events' = Append(events, <<"configureConnection", NewConnection>>)
  /\ UNCHANGED <<globalConnection, lastCall>>
  /\ GlobalFrame

\* configureConnection after conn.connect() resolved: setConnection(conn)
ConfigureResolve ==
  /\ comp = "global"
  /\ \E conn \in pending :
       /\ pending' = pending \ {conn}
       /\ globalConnection' = conn
       /\ events' = Append(events, <<"connect resolved", conn>>)
  /\ UNCHANGED <<calls, lastCall>>
  /\ GlobalFrame

\* configureConnection when conn.connect() rejected: the error propagates
ConfigureReject ==
  /\ comp = "global"
  /\ \E conn \in pending :
       /\ pending' = pending \ {conn}
       /\ events' = Append(events, <<"connect rejected", conn>>)
  /\ UNCHANGED <<globalConnection, calls, lastCall>>
  /\ GlobalFrame

NextGlobal ==
  \/ SetConnection \/ GetConnection \/ ConfigureIssue \/ ConfigureResolve
  \/ ConfigureReject
SpecGlobal == InitGlobal /\ [][NextGlobal]_vars

NextQuery == CallSql \/ QueryToSQL \/ QueryExecute
SpecQuery == InitQuery /\ [][NextQuery]_vars

NextValidate == CallValidateSql
SpecValidate == InitValidate /\ [][NextValidate]_vars

NextMapType == CallMapType
SpecMapType == InitMapType /\ [][NextMapType]_vars

NextGenerate == GenerateInterfaces \/ CallGenerateInterfaceCode \/ CallGenerateFile
SpecGenerate == InitGenerate /\ [][NextGenerate]_vars

NextIntrospect ==
  \/ GetTablesIssue \/ GetTablesResolve \/ GetTablesReject
  \/ GetColumnsIssue \/ GetColumnsResolve \/ GetColumnsReject
  \/ GetAllColumnsIssue \/ GetAllColumnsTables \/ GetAllColumnsColumns
  \/ GetAllColumnsReject
  \/ TestConnectionIssue \/ TestConnectionResolve \/ TestConnectionCatch
SpecIntrospect == InitIntrospect /\ [][NextIntrospect]_vars

NextConvert == ConvertIdentifier
SpecConvert == InitConvert /\ [][NextConvert]_vars

NextMatch == CallMatchPattern
SpecMatch == InitMatch /\ [][NextMatch]_vars

Init ==
  \/ InitCompile \/ InitValidate \/ InitMapType \/ InitGenerate
  \/ InitIntrospect \/ InitMatch \/ InitConvert \/ InitMetadata
  \/ InitQuery \/ InitConnection \/ InitCommand
  \/ InitGlobal
Next ==
  \/ NextCompile \/ NextValidate \/ NextMapType \/ NextGenerate
  \/ NextIntrospect \/ NextMatch \/ NextConvert \/ NextMetadata
  \/ NextQuery \/ NextConnection \/ NextCommand
  \/ NextGlobal
Spec == Init /\ [][Next]_vars

----------------------------------------------------------------------------
(* Properties of the template compiler                                     *)

\* the number of occurrences of the character c in s
CountChar(s, c) == Cardinality({i \in 1..Len(s) : s[i] = c})

RECURSIVE SumCount(_, _, _)
SumCount(strs, k, c) ==
  IF k = 0 THEN 0 ELSE CountChar(strs[k], c) + SumCount(strs, k - 1, c)

Compiled == comp = "compile" /\ pc \in {"parsed", "returned", "thrown"}

\* C1, as claimed: whatever the n+1 literal segments and n values, params has
\* length n and the sql holds exactly n characters '?'.
C1_ExactlyNQuestionMarks ==
  Compiled =>
    /\ Len(parsed.params) = Len(values)
    /\ CountChar(parsed.sql, "?") = Len(values)

\* C1, amended: params has length n, and the sql holds exactly n characters
\* '?' more than the literal segments hold themselves (so exactly n when no
\* literal segment holds a '?').
C1_PlaceholderCount ==
  Compiled =>
    /\ Len(parsed.params) = Len(values)
    /\ CountChar(parsed.sql, "?")
         = Len(values) + SumCount(strings, Len(strings), "?")

\* two values were compiled between literals that hold a '?' of their own
C1_Witness ==
  /\ Compiled
  /\ Len(values) = 2
  /\ SumCount(strings, Len(strings), "?") = 1

\* s without its whitespace characters
StripSpaces(s) == SelectSeq(s, LAMBDA c : ~IsSpace(c))

\* the first k literal segments with a placeholder between each two
RECURSIVE JoinFirst(_, _)
JoinFirst(strs, k) ==
  IF k = 1 THEN strs[1] ELSE JoinFirst(strs, k - 1) \o <<"?">> \o strs[k]

\* the index of the m-th character '?' of s
NthQuestionMark(s, m) ==
  CHOOSE i \in 1..Len(s) :
    s[i] = "?" /\ Cardinality({j \in 1..i : s[j] = "?"}) = m

\* the text of s before its m-th '?', whitespace apart
BeforeQuestionMark(s, m) == StripSpaces(SubSeq(s, 1, NthQuestionMark(s, m) - 1))

\* C2, as claimed: params is the values list, element for element, and the
\* k-th '?' of the sql stands where the k-th value stood: what precedes it is
\* the text of the first k literal segments and k-1 placeholders.
C2_KthQuestionMarkIsKthValue ==
  Compiled =>
    /\ parsed.params = values
    /\ \A k \in 1..Len(values) :
         /\ CountChar(parsed.sql, "?") >= k
         /\ BeforeQuestionMark(parsed.sql, k) = StripSpaces(JoinFirst(strings, k))

\* C2, amended: params is the values list, element for element and in order,
\* under either setting of normalizeWhitespace; the placeholder of the k-th
\* value is the '?' number k + (the '?' characters of literal segments 1..k)
\* of the sql, and what precedes it is the text of the first k literal
\* segments and k-1 placeholders, whitespace apart.
C2_ParamsAreValuesInOrder ==
  Compiled =>
    /\ parsed.params = values
    /\ \A k \in 1..Len(values) :
         LET m == k + SumCount(strings, k, "?") IN
         /\ CountChar(parsed.sql, "?") >= m
         /\ BeforeQuestionMark(parsed.sql, m) = StripSpaces(JoinFirst(strings, k))

\* two different values were compiled after a literal segment that holds a
\* '?' of its own
C2_Witness ==
  /\ comp = "compile" /\ pc = "parsed" /\ normalize
  /\ Len(values) = 2 /\ values[1] # values[2]
  /\ CountChar(strings[1], "?") = 1

\* every list of n values
ValueLists(n) == [1..n -> Values]

\* C3: the values never reach the SQL text.  With the literal segments fixed,
\* every other list of as many values compiles to the same sql and the same
\* metadata and is validated to the same result, by parseSqlTemplate and by the
\* sql tag, which then throws for all of them or for none.
C3_ValuesNeverReachSql ==
  /\ (comp = "compile" /\ pc = "parsed") =>
       \A vs \in ValueLists(Len(values)) :
         LET r == parseSqlTemplate(strings, vs, normalize) IN
         /\ r.sql = parsed.sql
         /\ r.metadata = parsed.metadata
         /\ validateSql(r.sql, FALSE) = validateSql(parsed.sql, FALSE)
  /\ (comp = "compile" /\ pc \in {"returned", "thrown"}) =>
       \A vs \in ValueLists(Len(values)) :
         LET r == sql(strings, vs) IN
         /\ r.threw = (pc = "thrown")
         /\ r.parsed.sql = parsed.sql
         /\ r.parsed.metadata = parsed.metadata
         /\ r.validation = validation

\* the sql tag returned a query although a value is '; DROP TABLE t'
C3_Witness ==
  /\ comp = "compile" /\ pc = "returned"
  /\ \E k \in 1..Len(values) : values[k] = ValueString
  /\ parsed.metadata.hasTable

----------------------------------------------------------------------------
(* Properties of the validator                                             *)

\* the nesting depth after the first k characters of s
Depth(s, k) ==
  Cardinality({i \in 1..k : s[i] = "("}) - Cardinality({i \in 1..k : s[i] = ")"})

Unbalanced(s) ==
  \/ \E k \in 1..Len(s) : Depth(s, k) < 0
  \/ Depth(s, Len(s)) # 0

\* the number of elements of the sequence q equal to e
CountOf(q, e) == Cardinality({i \in 1..Len(q) : q[i] = e})

Validated == comp = "validate" /\ pc = "validated"

\* C5: 'Unbalanced parentheses' is reported exactly once when the depth
\* becomes negative somewhere or is not zero at the end, and not at all
\* otherwise; with skipDangerousPatternCheck, valid is true exactly when no
\* prefix has a negative depth and the final depth is zero.
C5_UnbalancedReportedOnce ==
  Validated =>
    /\ CountOf(validation.errors, MsgUnbalanced)
         = IF Unbalanced(sqlIn) THEN 1 ELSE 0
    /\ skipCheck => (validation.valid <=> ~Unbalanced(sqlIn))

\* a string whose depth goes negative and which also ends above zero
C5_Witness ==
  /\ Validated
  /\ \E k \in 1..Len(sqlIn) : Depth(sqlIn, k) < 0
  /\ Depth(sqlIn, Len(sqlIn)) > 0

\* the upper-case word w stands in s at index q, in any letter case, and
\* whitespace follows it
WordThenSpace(s, q, w) ==
  /\ q + Len(w) <= Len(s)
  /\ ToUpperCase(SubSeq(s, q, q + Len(w) - 1)) = w
  /\ IsSpace(s[q + Len(w)])

AllSpaces(s, a, b) == \A j \in a..b : IsSpace(s[j])

\* a semicolon, optional whitespace, then DROP, TRUNCATE or ALTER and
\* whitespace, or DELETE, whitespace, FROM and whitespace
ChainsDestructiveStatement(s) ==
  \E p \in 1..Len(s) : \E q \in (p + 1)..Len(s) :
    /\ s[p] = ";"
    /\ AllSpaces(s, p + 1, q - 1)
    /\ \/ \E w \in {KwDrop, KwTruncate, KwAlter} : WordThenSpace(s, q, w)
       \/ /\ WordThenSpace(s, q, KwDelete)
          /\ \E r \in (q + 7)..Len(s) :
               /\ AllSpaces(s, q + 6, r - 1)
               /\ WordThenSpace(s, r, KwFrom)

\* C6: a statement chained after a semicolon with DROP, DELETE FROM, TRUNCATE
\* or ALTER is invalid and carries a dangerous-pattern error; with
\* skipDangerousPatternCheck no such error is produced and the result is the
\* one of the parenthesis check alone.
C6_DangerousPatternReported ==
  Validated =>
    /\ (~skipCheck /\ ChainsDestructiveStatement(sqlIn)) =>
         /\ ~validation.valid
         /\ \E i \in 1..Len(validation.errors) :
              validation.errors[i] \in DangerousMessages
    /\ skipCheck =>
         /\ \A i \in 1..Len(validation.errors) :
              validation.errors[i] = MsgUnbalanced
         /\ validation.valid <=> ~Unbalanced(sqlIn)

\* a chained statement in mixed letter case was reported
C6_Witness ==
  /\ Validated /\ ~skipCheck
  /\ ChainsDestructiveStatement(sqlIn)
  /\ sqlIn # ToUpperCase(sqlIn)
  /\ ~validation.valid

----------------------------------------------------------------------------
(* Properties of the type mapper                                           *)

Mapped == comp = "mapType" /\ pc = "mapped"

HasParen(s) == \E i \in 1..Len(s) : s[i] = "("

\* the text of s before its first '(' (all of s when it has none)
UpToParen(s) ==
  IF HasParen(s)
  THEN SubSeq(s, 1, (CHOOSE i \in 1..Len(s) :
                       s[i] = "(" /\ \A j \in 1..(i - 1) : s[j] # "(") - 1)
  ELSE s

ParenSuffixes ==
  {<<"(">>, <<"(", "8", ")">>, <<"(", "3", "8", ",", "0", ")">>, <<"(", " ", "x">>}

\* the key under which a spelled type is looked up: upper-cased, cut at the
\* first '(' and trimmed
LookupKey(s) == Trim(UpToParen(ToUpperCase(s)))

\* C7: mapType ignores a suffix that begins with '(' and ignores letter
\* case: the type returned for a spelling is also the type of that spelling
\* followed by any suffix, of the spelling cut at its first '(' and of its
\* upper-case and lower-case spellings.
C7_SuffixAndCaseIgnored ==
  Mapped =>
    /\ \A sfx \in ParenSuffixes :
         ~HasParen(snowflakeType) =>
           mapType(typeMapping, snowflakeType \o sfx) = mappedType
    /\ mapType(typeMapping, UpToParen(snowflakeType)) = mappedType
    /\ mapType(typeMapping, ToUpperCase(snowflakeType)) = mappedType
    /\ mapType(typeMapping, ToLowerCase(snowflakeType)) = mappedType

\* the lower-case spelling varchar(8 has been mapped to the built-in string
C7_Witness ==
  /\ Mapped
  /\ snowflakeType = KeyVarcharLower \o <<"(", "8">>
  /\ typeOverrides = <<>>
  /\ mappedType = TsString

\* C8: overrides are layered on the defaults: mapType of a key of the
\* overrides (an upper-case base name) returns the override value, and
\* mapType of a built-in key that the overrides do not have returns the
\* built-in value.
C8_OverridesLayeredOnDefaults ==
  Mapped =>
    /\ (snowflakeType \in DOMAIN typeOverrides /\ LookupKey(snowflakeType) = snowflakeType)
         => mappedType = typeOverrides[snowflakeType]
    /\ (snowflakeType \in DOMAIN DefaultMappings \ DOMAIN typeOverrides)
         => mappedType = DefaultMappings[snowflakeType]

\* C9: mapType returns 'unknown' exactly when the merged table has no entry
\* for the upper-cased, suffix-stripped name, and the entry's value whenever
\* there is one.
C9_UnknownExactlyWhenNoEntry ==
  Mapped =>
    LET key == LookupKey(snowflakeType) IN
    /\ (mappedType = TsUnknown) <=> (key \notin DOMAIN typeMapping)
    /\ key \in DOMAIN typeMapping => mappedType = typeMapping[key]

----------------------------------------------------------------------------
(* Properties of the code emitter                                          *)

Lines(text) == SplitOn(text, "\n")

\* a line indented by exactly n spaces that is not part of a comment
IsDeclarationAt(line, n) ==
  /\ Len(line) > n
  /\ \A i \in 1..n : line[i] = " "
  /\ line[n + 1] \notin {" ", "/", "*", "}"}

Spaces(n) == [i \in 1..n |-> " "]

\* the declaration of a property as the claim words it
DeclarationOf(prop) ==
  prop.name \o <<":", " ">> \o prop.type
  \o (IF prop.nullable THEN <<" ", "|", " ", "n", "u", "l", "l">> ELSE <<>>)
  \o <<";">>

HasQuestionMark(line) == \E i \in 1..Len(line) : line[i] = "?"

AllProperties(ifaces) ==
  UNION {{ifaces[k].properties[j] : j \in 1..Len(ifaces[k].properties)} :
           k \in 1..Len(ifaces)}

----------------------------------------------------------------------------
(* Properties of the introspector                                          *)

HasLower(s) == \E i \in 1..Len(s) : s[i] \in LowerSet

OnlyUpperDigitUnderscore(s) ==
  \A i \in 1..Len(s) : s[i] \in UpperSet \cup DigitSet \cup {"_"}

\* what the casing rule allows in the query for the identifier s
Embeddings(s) ==
  (IF HasLower(s) THEN {s} ELSE {ToUpperCase(s)})
  \cup (IF OnlyUpperDigitUnderscore(s) THEN {s} ELSE {})

\* the lists that embed every identifier of names as the rule allows
EmbeddingLists(names) ==
  {es \in [1..Len(names) -> UNION {Embeddings(names[k]) : k \in 1..Len(names)}] :
     \A k \in 1..Len(names) : es[k] \in Embeddings(names[k])}

QuotedList(es) ==
  Join([k \in 1..Len(es) |-> <<"'">> \o es[k] \o <<"'">>], <<",", " ">>, 1)

LastIssued == issued[Len(issued)]

\* C10: the query of getTables embeds each schema name, and the query of
\* getColumns embeds its schema name and each table name, unchanged when
\* the name has a lower-case character and upper-cased otherwise; a name of
\* upper-case letters, digits and underscores is embedded unchanged.
C10_CasingResolver ==
  /\ (comp = "introspect" /\ pc = "getTables") =>
       \A es \in EmbeddingLists(config.schemas) :
         LastIssued = TxTablesSelect \o config.database \o TxTablesWhere
                      \o QuotedList(es) \o TxTablesOrder
  /\ (comp = "introspect" /\ pc = "getColumns") =>
       \A e \in Embeddings(colArgs.schema) :
         \A es \in EmbeddingLists(colArgs.tables) :
           LastIssued = TxColumnsSelect \o colArgs.database \o TxColumnsWhere
                        \o e \o TxColumnsAnd \o QuotedList(es) \o TxColumnsOrder

\* getColumns has issued its query for a schema with lower-case letters and
\* two tables, one upper-case and one with lower-case letters
C10_Witness ==
  /\ comp = "introspect" /\ pc = "getColumns"
  /\ HasLower(colArgs.schema)
  /\ Len(colArgs.tables) = 2
  /\ OnlyUpperDigitUnderscore(colArgs.tables[1])
  /\ HasLower(colArgs.tables[2])

\* the reference matcher: '*' is any run of characters, '?' is one
\* character, any other character of the pattern is itself whatever the
\* letter case, and the pattern covers the whole name
RECURSIVE GlobMatch(_, _, _, _)
GlobMatch(p, i, v, j) ==
  IF i > Len(p) THEN j > Len(v)
  ELSE IF p[i] = "*"
       THEN GlobMatch(p, i + 1, v, j) \/ (j <= Len(v) /\ GlobMatch(p, i, v, j + 1))
       ELSE /\ j <= Len(v)
            /\ (p[i] = "?" \/ ToUpperChar(p[i]) = ToUpperChar(v[j]))
            /\ GlobMatch(p, i + 1, v, j + 1)

\* a row is kept when no include pattern is configured or its table name
\* matches one, and its table name matches no exclude pattern
KeptByFilters(row, cfg) ==
  /\ \/ Len(cfg.includeTables) = 0
     \/ \E k \in 1..Len(cfg.includeTables) :
          GlobMatch(cfg.includeTables[k], 1, row.table_name, 1)
  /\ ~ \E k \in 1..Len(cfg.excludeTables) :
         GlobMatch(cfg.excludeTables[k], 1, row.table_name, 1)

\* C11: the result of getTables is the executor's rows, in the executor's
\* order, that the include and exclude patterns keep by their table name.
C11_FilteredByTableName ==
  (comp = "introspect" /\ pc = "tables") =>
    tablesResult = SelectSeq(tableRows, LAMBDA row : KeptByFilters(row, config))

\* C12: matchPattern returns what the reference matcher returns.
C12_MatchPatternIsGlob ==
  (comp = "match" /\ pc = "matched") =>
    matchResult = GlobMatch(matchGlob, 1, matchName, 1)

\* the elements of a finite set of numbers, in ascending order
Ascending(nums) ==
  [k \in 1..Cardinality(nums) |->
     CHOOSE n \in nums : Cardinality({m \in nums : m < n}) = k - 1]

\* the distinct schema values of a list of table rows, in the order in
\* which the list first names them
FirstSeenSchemas(tbls) ==
  LET firsts == {i \in 1..Len(tbls) :
                   \A j \in 1..(i - 1) : tbls[j].table_schema # tbls[i].table_schema}
      order == Ascending(firsts)
  IN [k \in 1..Len(order) |-> tbls[order[k]].table_schema]

\* the names of the tables of one schema, in list order
TableNamesOf(tbls, schema) ==
  LET own == SelectSeq(tbls, LAMBDA t : t.table_schema = schema) IN
  [k \in 1..Len(own) |-> own[k].table_name]

AllColumnsDone == comp = "introspect" /\ pc = "allColumns"

\* C13: a getAllColumns that resolved has issued the table query and then
\* one column query per distinct schema of the filtered tables, each for
\* exactly the filtered tables of that schema.
C13_OneColumnQueryPerSchema ==
  AllColumnsDone =>
    LET schemas == FirstSeenSchemas(tablesResult) IN
    /\ Len(issued) = 1 + Len(schemas)
    /\ issued[1] = TablesQuery(config)
    /\ \A k \in 1..Len(schemas) :
         issued[k + 1] = ColumnsQuery(config.database, schemas[k],
                                      TableNamesOf(tablesResult, schemas[k]))

\* two tables of one schema were fetched with one column query
C13_Witness ==
  /\ AllColumnsDone
  /\ Len(tablesResult) = 2
  /\ tablesResult[1].table_name # tablesResult[2].table_name
  /\ Len(issued) = 2

RECURSIVE ConcatRows(_, _)
ConcatRows(lists, k) ==
  IF k > Len(lists) THEN <<>> ELSE lists[k] \o ConcatRows(lists, k + 1)

\* C14: the list getAllColumns returns is the concatenation of the column
\* query results, each kept as returned, in the order of the queries, and
\* the k-th column query is that of the k-th schema the table list names.
C14_ConcatenationInSchemaOrder ==
  AllColumnsDone =>
    /\ columnsResult = ConcatRows(columnRows, 1)
    /\ Len(columnRows) = Len(FirstSeenSchemas(tablesResult))
    /\ \A k \in 1..Len(columnRows) :
         LET schema == FirstSeenSchemas(tablesResult)[k] IN
         issued[k + 1] = ColumnsQuery(config.database, schema,
                                      TableNamesOf(tablesResult, schema))

\* two schemas were fetched, each with rows, the second-sorted schema first
C14_Witness ==
  /\ AllColumnsDone
  /\ Len(columnRows) = 2
  /\ columnRows[1] # <<>> /\ columnRows[2] # <<>>
  /\ tablesResult[1].table_schema = NameRaw2

\* C15: a call that rejected carries the error of the failed
\* connection.execute, every query before the failed one had resolved and
\* the failed one is the last query issued, nothing can be issued after it,
\* and no row list was returned.
C15_ExecutorFailurePropagates ==
  (comp = "introspect" /\ pc = "rejected") =>
    /\ rejection = thrown
    /\ thrown = ExecuteError(connected, issued[Len(issued)])
    /\ Len(issued) = executed + 1
    /\ ~ ENABLED NextIntrospect
    /\ columnsResult = <<>>
    /\ (executed = 0 => tablesResult = <<>>)

\* getAllColumns failed on the column query of its second schema after the
\* first had returned rows
C15_Witness ==
  /\ comp = "introspect" /\ pc = "rejected"
  /\ executed = 2
  /\ Len(tablesBySchema) = 2
  /\ allColumns # <<>>

\* C16: testConnection issues the one query SELECT 1 and resolves to true
\* when it succeeded and to false when it failed; it never rejects.
C16_TestConnectionNeverRejects ==
  /\ (comp = "introspect" /\ pc = "tested") =>
       /\ issued = <<TxSelectOne>>
       /\ testResult <=> executed = 1
       /\ ~testResult <=> thrown # NoError
       /\ ~connected => ~testResult
       /\ rejection = NoError
  /\ (comp = "introspect" /\ issued # <<>> /\ issued[1] = TxSelectOne) =>
       pc \in {"testConnection", "tested"}

\* testConnection resolved to false on a connection that was never opened
C16_Witness ==
  /\ comp = "introspect" /\ pc = "tested"
  /\ ~connected
  /\ ~testResult
  /\ thrown = ErrNotConnected

----------------------------------------------------------------------------
(* Properties of the declaration generator                                 *)

\* a segment with its first letter upper-case and the rest lower-case
Capitalized(seg) ==
  IF seg = <<>> THEN <<>>
  ELSE <<ToUpperChar(seg[1])>> \o ToLowerCase(Tail(seg))

\* split on '_', lower-case each segment, capitalize its first letter,
\* concatenate
UpperCamel(name) ==
  LET segs == SplitOn(name, "_") IN
  ConcatRows([k \in 1..Len(segs) |-> Capitalized(segs[k])], 1)

\* the same with the first segment left entirely lower-case
LowerCamel(name) ==
  LET segs == SplitOn(name, "_") IN
  ConcatRows([k \in 1..Len(segs) |->
                IF k = 1 THEN ToLowerCase(segs[k]) ELSE Capitalized(segs[k])], 1)

\* C17: the record generateInterface makes is named by the table name in
\* upper camel case and its property by the column name in lower camel
\* case, both by splitting the name on '_'.
C17_IdentifierConversion ==
  (comp = "convert" /\ pc = "converted") =>
    /\ interfaces[1].name = UpperCamel(tables[1].table_name)
    /\ interfaces[1].properties[1].name = LowerCamel(columns[1].column_name)

\* the columns handed to generateInterface for a table (generate.ts 82-85)
ColumnsOf(table) ==
  SelectSeq(columns, LAMBDA c : /\ c.table_schema = table.table_schema
                                /\ c.table_name = table.table_name)

OrdinalsOf(cols) == {cols[j].ordinal_position : j \in 1..Len(cols)}

\* the columns sorted by ascending ordinal position (ordinals distinct)
ByOrdinal(cols) ==
  LET ords == Ascending(OrdinalsOf(cols)) IN
  [j \in 1..Len(cols) |->
     CHOOSE c \in {cols[i] : i \in 1..Len(cols)} : c.ordinal_position = ords[j]]

PropertyNames(ifc) ==
  [j \in 1..Len(ifc.properties) |-> ifc.properties[j].name]

CamelNames(cols) == [j \in 1..Len(cols) |-> toCamelCase(cols[j].column_name)]

\* C18 as stated: whatever the order of the columns given for a table
\* (their ordinal positions distinct), the properties of its record are in
\* ascending ordinal position of their columns.
C18_Original ==
  (comp = "generate" /\ pc = "interfaces") =>
    \A k \in 1..Len(interfaces) :
      LET cols == ColumnsOf(tables[k]) IN
      (Cardinality(OrdinalsOf(cols)) = Len(cols)) =>
        PropertyNames(interfaces[k]) = CamelNames(ByOrdinal(cols))

\* C18: the record of a table has one property per column given for it, in
\* the order the columns were given; so its properties are in ascending
\* ordinal position when the columns were given in that order.
C18_PropertiesInGivenOrder ==
  (comp = "generate" /\ pc = "interfaces") =>
    \A k \in 1..Len(interfaces) :
      LET cols == ColumnsOf(tables[k]) IN
      /\ Len(interfaces[k].properties) = Len(cols)
      /\ PropertyNames(interfaces[k]) = CamelNames(cols)
      /\ (\A i, j \in 1..Len(cols) :
            i < j => cols[i].ordinal_position < cols[j].ordinal_position)
         => PropertyNames(interfaces[k]) = CamelNames(ByOrdinal(cols))

C18_Witness ==
  /\ comp = "generate" /\ pc = "interfaces"
  /\ Len(interfaces) >= 1
  /\ Len(interfaces[1].properties) = 2
  /\ columns[1].ordinal_position > columns[2].ordinal_position

StartsWith(text, prefix) ==
  /\ Len(text) >= Len(prefix)
  /\ SubSeq(text, 1, Len(prefix)) = prefix

\* the indices of the lines that satisfy Test, ascending
LinesWhere(lines, Test(_)) == Ascending({i \in 1..Len(lines) : Test(lines[i])})

MarkSchema == <<"/", "/", " ", "S", "c", "h", "e", "m", "a", ":", " ">>
MarkDatabase == <<"/", "/", " ", "D", "a", "t", "a", "b", "a", "s", "e", " ", "s", "t", "r", "u", "c", "t", "u", "r", "e">>
MarkRecord == <<" ", " ", "e", "x", "p", "o", "r", "t", " ", "i", "n", "t", "e", "r", "f", "a", "c", "e", " ">>
MarkRoot == <<"e", "x", "p", "o", "r", "t", " ", "i", "n", "t", "e", "r", "f", "a", "c", "e", " ", "D", "a", "t", "a", "b", "a", "s", "e", " ", "{">>

\* the schemas of the records, each once, in first-encountered order
RecordSchemas(ifaces) ==
  FirstSeenSchemas([k \in 1..Len(ifaces) |-> [table_schema |-> ifaces[k].schema]])

\* the header lines of the records of one schema, in input order
RecordHeaders(ifaces, schema) ==
  LET own == SelectSeq(ifaces, LAMBDA f : f.schema = schema) IN
  [k \in 1..Len(own) |-> MarkRecord \o own[k].name \o <<" ", "{">>]

\* C19: the text of generateFile starts with the header comment and the
\* JSON type preamble; then comes one block per distinct schema, in the
\* order the schemas are first met among the records, each block holding
\* the declarations of exactly the records of its schema in input order;
\* the Database block comes after all of them and ends the text.
C19_FileLayout ==
  (comp = "generate" /\ pc = "file") =>
    LET lines == Lines(code)
        schemas == RecordSchemas(interfaces)
        marks == LinesWhere(lines, LAMBDA l : StartsWith(l, MarkSchema))
        roots == LinesWhere(lines, LAMBDA l : l = MarkDatabase)
        heads == LinesWhere(lines, LAMBDA l : StartsWith(l, MarkRecord))
        preamble == Len(Lines(TxFileHeader \o TxJsonTypes)) - 1
        BlockEnd(b) == IF b < Len(marks) THEN marks[b + 1] ELSE roots[1]
    IN
    /\ StartsWith(code, TxFileHeader \o TxJsonTypes)
    /\ Len(roots) = 1
    /\ Len(marks) = Len(schemas)
    /\ \A b \in 1..Len(marks) :
         /\ lines[marks[b]] = MarkSchema \o schemas[b]
         /\ marks[b] > preamble
         /\ marks[b] < roots[1]
         /\ SelectSeq(SubSeq(lines, marks[b], BlockEnd(b) - 1),
                      LAMBDA l : StartsWith(l, MarkRecord))
              = RecordHeaders(interfaces, schemas[b])
    /\ Len(heads) = Len(interfaces)
    /\ \A h \in 1..Len(heads) : Len(marks) > 0 /\ heads[h] > marks[1]
                                /\ heads[h] < roots[1]
    /\ lines[roots[1] + 1] = MarkRoot
    /\ roots[1] > preamble
    /\ Len(lines) = roots[1] + 1 + Len(schemas) + 2
    /\ lines[Len(lines) - 1] = <<"}">>
    /\ lines[Len(lines)] = <<>>

C19_Witness ==
  /\ comp = "generate" /\ pc = "file"
  /\ Len(interfaces) = 2
  /\ interfaces[1].schema = NameRaw2
  /\ interfaces[2].schema = NameCore

MarkNamespace == <<"e", "x", "p", "o", "r", "t", " ", "n", "a", "m", "e", "s", "p", "a", "c", "e", " ">>
MarkTypeof == <<":", " ", "t", "y", "p", "e", "o", "f", " ">>

\* the name a line `export namespace Name {` declares
BlockName(line) == SubSeq(line, Len(MarkNamespace) + 1, Len(line) - 2)

\* the name a line `  field: typeof Name;` refers to
ReferenceOf(line) ==
  LET colon == CHOOSE i \in 1..Len(line) :
                 /\ line[i] = ":"
                 /\ \A j \in 1..(i - 1) : line[j] # ":"
  IN SubSeq(line, colon + Len(MarkTypeof), Len(line) - 1)

\* C20: the Database block of generateFile has one field per distinct
\* schema of the records, `lowerCamel: typeof UpperCamel;`, the grouping
\* block of the schema is named UpperCamel, every field refers to a block
\* of the text and every block is referred to by exactly one field.
C20_DatabaseFields ==
  (comp = "generate" /\ pc = "file") =>
    LET lines == Lines(code)
        schemas == RecordSchemas(interfaces)
        root == CHOOSE i \in 1..Len(lines) : lines[i] = MarkDatabase
        fields == SubSeq(lines, root + 2, Len(lines) - 2)
        blocks == SelectSeq(lines, LAMBDA l : StartsWith(l, MarkNamespace))
    IN
    /\ Len(fields) = Len(schemas)
    /\ Len(blocks) = Len(schemas)
    /\ \A k \in 1..Len(schemas) :
         /\ fields[k] = <<" ", " ">> \o LowerCamel(schemas[k]) \o MarkTypeof
                        \o UpperCamel(schemas[k]) \o <<";">>
         /\ BlockName(blocks[k]) = UpperCamel(schemas[k])
    /\ \A k \in 1..Len(fields) :
         \E b \in 1..Len(blocks) : ReferenceOf(fields[k]) = BlockName(blocks[b])
    /\ \A b \in 1..Len(blocks) :
         Cardinality({k \in 1..Len(fields) :
                        ReferenceOf(fields[k]) = BlockName(blocks[b])}) = 1

----------------------------------------------------------------------------
(* Properties of the metadata extraction                                   *)

\* the keyword kw stands at index i of s as a word of its own
KeywordAt(s, i, kw) ==
  /\ MatchesAt(s, i, kw)
  /\ i = 1 \/ ~IsWordChar(s[i - 1])
  /\ i + Len(kw) > Len(s) \/ ~IsWordChar(s[i + Len(kw)])

\* the first index >= i of s that satisfies Test, Len(s) + 1 when none does
FirstWhere(s, i, Test(_)) ==
  IF \E j \in i..Len(s) : Test(j)
  THEN CHOOSE j \in i..Len(s) : Test(j) /\ \A k \in i..(j - 1) : ~Test(k)
  ELSE Len(s) + 1

\* the identifier path that follows the keyword FROM at index i and
\* whitespace, <<>> when none does
PathAfterFrom(s, i) ==
  LET j == FirstWhere(s, i + 4, LAMBDA k : ~IsSpace(s[k]))
      e == FirstWhere(s, j, LAMBDA k : ~(IsWordChar(s[k]) \/ s[k] = "."))
  IN IF j > i + 4 THEN SubSeq(s, j, e - 1) ELSE <<>>

\* the positions of a keyword FROM followed by whitespace and an identifier
FromClauses(s) ==
  {i \in 1..Len(s) : KeywordAt(s, i, KwFrom) /\ PathAfterFrom(s, i) # <<>>}

TxRoundTrip == <<"S", "E", "L", "E", "C", "T", " ", "a", ",", " ", "b", " ", "F", "R", "O", "M", " ", "t", " ", "W", "H", "E", "R", "E", " ", "x", " ", "=", " ">>

\* C21: metadata.table is the identifier path that follows the first
\* keyword FROM (any letter case) that has whitespace and an identifier
\* after it, and is absent when there is none; the statement
\* 'SELECT a, b FROM t WHERE x = ' with value 5 compiles to
\* 'SELECT a, b FROM t WHERE x = ?' with params [5] and table 't'.
C21_TableAfterFirstFrom ==
  (comp = "metadata" /\ pc = "parsed") =>
    LET froms == FromClauses(parsed.sql) IN
    /\ parsed.metadata.hasTable = (froms # {})
    /\ froms # {} =>
         parsed.metadata.table =
           PathAfterFrom(parsed.sql, CHOOSE i \in froms : \A j \in froms : i <= j)
    /\ (strings = <<TxRoundTrip, <<>>>> /\ values = <<ValueNumber>>) =>
         /\ parsed.sql = TxRoundTrip \o <<"?">>
         /\ parsed.params = <<ValueNumber>>
         /\ parsed.metadata.hasTable /\ parsed.metadata.table = <<"t">>

\* the identifier an entry of the select list ends with (an alias, quoted
\* or not, is the identifier the entry ends with); <<>> when it ends with
\* something else
TrailingIdentifier(entry) ==
  LET t == Trim(entry)
      u == IF t # <<>> /\ t[Len(t)] \in {"\"", "'"}
           THEN SubSeq(t, 1, Len(t) - 1) ELSE t
      starts == {i \in 1..Len(u) : \A k \in i..Len(u) : IsWordChar(u[k])}
  IN IF starts = {} THEN <<>>
     ELSE SubSeq(u, CHOOSE i \in starts : \A j \in starts : i <= j, Len(u))

\* the text between the first keyword SELECT and the next keyword FROM
\* that stands after whitespace; <<>> in a one-element sequence when there
\* are the two keywords, <<>> otherwise
SelectList(s) ==
  LET selects == {i \in 1..Len(s) :
                    /\ KeywordAt(s, i, KwSelect)
                    /\ i + 6 <= Len(s) /\ IsSpace(s[i + 6])}
      sel == CHOOSE i \in selects : \A j \in selects : i <= j
      froms == {f \in 1..Len(s) :
                  /\ f > sel + 7
                  /\ KeywordAt(s, f, KwFrom)
                  /\ IsSpace(s[f - 1])}
      frm == CHOOSE f \in froms : \A g \in froms : f <= g
  IN IF selects = {} \/ froms = {} THEN <<>>
     ELSE <<Trim(SubSeq(s, sel + 7, frm - 1))>>

\* C22: metadata.columns is absent when there is no select list or the
\* select list is a bare '*'; otherwise it has one element per
\* comma-separated entry of the select list, in order, and the element of
\* an entry that ends with an identifier (an alias or a column name) is
\* that identifier.
C22_ColumnsOfSelectList ==
  (comp = "metadata" /\ pc = "parsed") =>
    LET list == SelectList(parsed.sql)
        listed == list # <<>> /\ list[1] # <<"*">>
        entries == IF listed THEN SplitOn(list[1], ",") ELSE <<>>
    IN
    /\ parsed.metadata.hasColumns = listed
    /\ listed =>
         /\ Len(parsed.metadata.columns) = Len(entries)
         /\ \A k \in 1..Len(entries) :
              TrailingIdentifier(entries[k]) # <<>> =>
                parsed.metadata.columns[k] = TrailingIdentifier(entries[k])

----------------------------------------------------------------------------
(* More properties of the declaration generator                            *)

Contains(text, part) ==
  \E i \in 1..(Len(text) - Len(part) + 1) :
    SubSeq(text, i, i + Len(part) - 1) = part

----------------------------------------------------------------------------
(* More properties of the introspector                                     *)

\* the executor calls that were started and have neither resolved nor
\* rejected
InFlight == Len(issued) - executed - (IF thrown # NoError THEN 1 ELSE 0)

\* C24: at most one executor call is in flight at any moment; while
\* getAllColumns waits for its table query nothing else was started, and
\* while it waits for the column query of the k-th schema, the table
\* query and the column queries of the k - 1 schemas before it have
\* completed and no later one was started.
C24_QueriesOneAtATime ==
  comp = "introspect" =>
    /\ InFlight \in {0, 1}
    /\ pc = "all.getTables" =>
         /\ issued = <<TablesQuery(config)>>
         /\ executed = 0
    /\ pc = "all.getColumns" =>
         /\ Len(issued) = schemaIdx + 1
         /\ executed = schemaIdx
         /\ InFlight = 1
    /\ pc = "allColumns" => InFlight = 0

C24_Witness ==
  /\ comp = "introspect" /\ pc = "all.getColumns"
  /\ schemaIdx = 2
  /\ InFlight = 1

----------------------------------------------------------------------------
(* Properties of the whitespace normalization                              *)

\* the literal segments joined by the placeholders
Skeleton(strs) == Join(strs, <<"?">>, 1)

\* a text rebuilt from its non-whitespace characters, with Sep(x, y, gap)
\* between two neighbours x and y (gap: whitespace stood between them) and
\* End(x) after the last one
Respaced(s, Sep(_, _, _), End(_)) ==
  LET at == Ascending({i \in 1..Len(s) : ~IsSpace(s[i])})
      n == Len(at)
  IN ConcatRows([k \in 1..n |->
                   (IF k = 1 THEN <<>>
                    ELSE Sep(s[at[k - 1]], s[at[k]], at[k] > at[k - 1] + 1))
                   \o <<s[at[k]]>>], 1)
     \o (IF n = 0 THEN <<>> ELSE End(s[at[n]]))

OneSpaceIf(gap) == IF gap THEN <<" ">> ELSE <<>>

\* the normalization as stated: nothing before a comma and one space after
\* it, nothing after '(' and nothing before ')', elsewhere one space where
\* there was whitespace
SepInsideOnly(x, y, gap) ==
  IF y = "," THEN <<>>
  ELSE IF x = "," THEN <<" ">>
  ELSE IF x = "(" \/ y = ")" THEN <<>>
  ELSE OneSpaceIf(gap)

EndNothing(x) == <<>>

\* the normalization of the code: nothing on either side of a parenthesis,
\* one space after a comma that is not followed by a parenthesis (also
\* after a comma that ends the text), nothing before a comma that follows
\* something else than a comma, elsewhere one space where there was
\* whitespace
SepAround(x, y, gap) ==
  IF x \in {"(", ")"} \/ y \in {"(", ")"} THEN <<>>
  ELSE IF x = "," THEN <<" ">>
  ELSE IF y = "," THEN <<>>
  ELSE OneSpaceIf(gap)

EndAfterComma(x) == IF x = "," THEN <<" ">> ELSE <<>>

NoSpaceRun(s) == \A i \in 1..(Len(s) - 1) : ~(IsSpace(s[i]) /\ IsSpace(s[i + 1]))

\* C25 as stated: the normalized sql is the skeleton with whitespace
\* removed before commas and only inside parentheses, one space after each
\* comma, no whitespace at either end and no whitespace run.
C25_InsideParenthesesOnly ==
  (comp = "compile" /\ pc = "parsed" /\ normalize) =>
    /\ parsed.sql = Respaced(Skeleton(strings), SepInsideOnly, EndNothing)
    /\ parsed.sql = <<>> \/ (~IsSpace(parsed.sql[1])
                             /\ ~IsSpace(parsed.sql[Len(parsed.sql)]))
    /\ NoSpaceRun(parsed.sql)

\* C25: the normalized sql is the whole skeleton with every whitespace run
\* collapsed to one space, whitespace removed before commas and on both
\* sides of every parenthesis, and one space after each comma that is not
\* followed by a parenthesis; it has no leading whitespace, no whitespace
\* run, and trailing whitespace (one space) only after a comma that ends
\* the skeleton.
C25_AroundParentheses ==
  (comp = "compile" /\ pc = "parsed" /\ normalize) =>
    /\ parsed.sql = Respaced(Skeleton(strings), SepAround, EndAfterComma)
    /\ parsed.sql # <<>> => ~IsSpace(parsed.sql[1])
    /\ NoSpaceRun(parsed.sql)
    /\ (parsed.sql # <<>> /\ IsSpace(parsed.sql[Len(parsed.sql)])) =>
         /\ Len(parsed.sql) >= 2
         /\ parsed.sql[Len(parsed.sql) - 1] = ","

\* a space between a token and '(' was removed
C25_Witness ==
  /\ comp = "compile" /\ pc = "parsed" /\ normalize
  /\ strings = <<<<"a", " ", "(">>>>
  /\ parsed.sql = <<"a", "(">>

----------------------------------------------------------------------------
(* More properties of the validator                                        *)

\* somewhere in s a semicolon, optional whitespace, the word w in any
\* letter case and whitespace
ChainsWord(s, w) ==
  \E p \in 1..Len(s) : \E q \in (p + 1)..Len(s) :
    /\ s[p] = ";"
    /\ AllSpaces(s, p + 1, q - 1)
    /\ WordThenSpace(s, q, w)

\* somewhere in s a semicolon, optional whitespace, DELETE, whitespace,
\* FROM and whitespace
ChainsDeleteFrom(s) ==
  \E p \in 1..Len(s) : \E q \in (p + 1)..Len(s) :
    /\ s[p] = ";"
    /\ AllSpaces(s, p + 1, q - 1)
    /\ WordThenSpace(s, q, KwDelete)
    /\ \E r \in (q + 7)..Len(s) :
         /\ AllSpaces(s, q + 6, r - 1)
         /\ WordThenSpace(s, r, KwFrom)

\* the messages of the patterns that s matches
MatchedMessages(s) ==
  {m \in DangerousMessages :
     \/ m = MsgDrop /\ ChainsWord(s, KwDrop)
     \/ m = MsgDelete /\ ChainsDeleteFrom(s)
     \/ m = MsgTruncate /\ ChainsWord(s, KwTruncate)
     \/ m = MsgAlter /\ ChainsWord(s, KwAlter)}

\* C26: the four patterns have four different messages; with the check
\* on, the errors list holds the message of every pattern the sql matches
\* exactly once and of no other pattern, however often a pattern occurs,
\* and besides these only the parenthesis error, in the same list.
C26_OneErrorPerMatchedPattern ==
  (Validated /\ ~skipCheck) =>
    /\ Cardinality(DangerousMessages) = 4
    /\ \A m \in DangerousMessages :
         CountOf(validation.errors, m) = IF m \in MatchedMessages(sqlIn) THEN 1 ELSE 0
    /\ Len(validation.errors) =
         Cardinality(MatchedMessages(sqlIn)) + CountOf(validation.errors, MsgUnbalanced)
    /\ CountOf(validation.errors, MsgUnbalanced) = IF Unbalanced(sqlIn) THEN 1 ELSE 0

\* two patterns matched, one of them twice
C26_Witness ==
  /\ Validated /\ ~skipCheck
  /\ Cardinality(MatchedMessages(sqlIn)) = 2
  /\ Len(validation.errors) = 2
  /\ \E i, j \in 1..Len(sqlIn) : i < j /\ WordThenSpace(sqlIn, i, KwDrop)
                                 /\ WordThenSpace(sqlIn, j, KwDrop)


\* ---------------------------------------------------------------------
\* The sql tag and the query it returns
\* ---------------------------------------------------------------------

\* the ParsedQuery of the template the tag was called with
TagParsed == parseSqlTemplate(strings, values, TRUE)

\* the compiled sql fails validation with the dangerous-pattern check on
FailsValidation(s) == Unbalanced(s) \/ MatchedMessages(s) # {}

\* C27: the tag throws exactly when the compiled sql fails validation,
\* and then the error lists the validation errors and no query exists to
\* be shown or executed; otherwise toSQL() is the parseSqlTemplate result
\* and every execute() call hands that sql and those params to the global
\* connection, the same on every call.
C27_QueryOnlyForValidSql ==
  (comp = "query" /\ pc # "start") =>
    /\ pc = "thrown" <=> FailsValidation(TagParsed.sql)
    /\ pc = "thrown" =>
         /\ queryError.message = "Invalid SQL query:"
         /\ queryError.errors = validateSql(TagParsed.sql, FALSE).errors
         /\ queryError.errors # <<>>
         /\ queryError.sql = TagParsed.sql
         /\ shown = NoParsed /\ calls = 0 /\ sent = <<>>
         /\ ~ENABLED QueryToSQL /\ ~ENABLED QueryExecute
    /\ pc = "returned" =>
         /\ shown \in {NoParsed, TagParsed}
         /\ Len(sent) = IF globalConnection = 0 THEN 0 ELSE calls
         /\ \A k \in 1..Len(sent) :
              /\ sent[k].conn = globalConnection
              /\ sent[k].sql = TagParsed.sql
              /\ sent[k].params = values

\* a query with a value was shown and executed twice
C27_Witness ==
  /\ comp = "query" /\ pc = "returned"
  /\ shown = TagParsed /\ Len(sent) = 2 /\ values # <<>>


\* ---------------------------------------------------------------------
\* The life of a SnowflakeConnection
\* ---------------------------------------------------------------------

\* C28: execute and executeRaw fail with the not-connected error and call
\* nothing on the driver exactly when the connection is not open (no
\* connect() has succeeded, or a close() has succeeded since); close() on
\* a connection that is not open resolves without a driver call; a
\* failed close() leaves the connection open and a successful one leaves
\* it not connected.
C28_Lifecycle ==
  (comp = "connection" /\ lastCall.op # "none") =>
    /\ lastCall.op \in {"execute", "executeRaw"} =>
         IF lastCall.wasOpen
         THEN lastCall.error # ErrNotConnected
         ELSE lastCall.error = ErrNotConnected /\ lastCall.driver = <<>>
    /\ (lastCall.op = "close" /\ ~lastCall.wasOpen) =>
         lastCall.error = NoError /\ lastCall.driver = <<>>
    /\ (lastCall.op = "close" /\ lastCall.wasOpen) =>
         IF lastCall.error = NoError
         THEN ~opened /\ ~connected
         ELSE opened


\* ---------------------------------------------------------------------
\* The generate command
\* ---------------------------------------------------------------------

Did(name, outcome) == \E i \in 1..Len(events) : events[i] = <<name, outcome>>

Count(name) == Cardinality({i \in 1..Len(events) : events[i][1] = name})

\* the column rows of the command whose schema and table name are those
\* of table t, in their order
OwnColumns(t) ==
  LET own == {i \in 1..Len(columns) :
                /\ columns[i].table_schema = t.table_schema
                /\ columns[i].table_name = t.table_name}
      \* the index in columns of the j-th own row
      at(j) == CHOOSE i \in own : Cardinality({h \in own : h <= i}) = j
  IN [j \in 1..Cardinality(own) |-> columns[at(j)]]

\* C29: close() is never called unless connect() succeeded and never
\* twice, and once the command has settled after a successful connect()
\* it has been called exactly once, whichever step failed; a file is
\* written only when testConnection, getTables and getAllColumns all
\* succeeded, and it holds one record per table of getTables, in order,
\* built from the column rows of that table's schema and name.
C29_CloseOnceFileAfterQueries ==
  comp = "command" =>
    /\ closeCalls = Count("close")
    /\ closeCalls <= 1
    /\ ~Did("connect", "resolved") => closeCalls = 0
    /\ (pc = "settled" /\ Did("connect", "resolved")) => closeCalls = 1
    /\ written.exists =>
         /\ Did("testConnection", TRUE)
         /\ Did("getTables", "resolved") /\ Did("getAllColumns", "resolved")
         /\ ~Did("testConnection", FALSE)
         /\ ~Did("getTables", "rejected") /\ ~Did("getAllColumns", "rejected")
         /\ written.code = generateFile(written.interfaces)
         /\ Len(written.interfaces) = Len(tables)
         /\ \A k \in 1..Len(tables) :
              LET r == written.interfaces[k]
                  own == OwnColumns(tables[k])
              IN /\ r.tableName = tables[k].table_name
                 /\ r.schema = tables[k].table_schema
                 /\ Len(r.properties) = Len(own)
                 /\ \A j \in 1..Len(own) :
                      /\ r.properties[j].name = toCamelCase(own[j].column_name)
                      /\ r.properties[j].nullable = (own[j].is_nullable = "YES")
                      /\ r.properties[j].comment = own[j].comment

\* a run that wrote two records, one with a property, while a column row
\* of another table was among the rows, and closed the connection
C29_Witness ==
  /\ comp = "command" /\ pc = "settled"
  /\ written.exists /\ closeCalls = 1
  /\ Len(written.interfaces) = 2
  /\ \E k \in 1..2 : Len(written.interfaces[k].properties) = 1
  /\ \E i \in 1..Len(columns) : \A k \in 1..Len(tables) :
       columns[i].table_name # tables[k].table_name


\* ---------------------------------------------------------------------
\* The global connection
\* ---------------------------------------------------------------------

\* the connection most recently made global among the first n events: by
\* a setConnection call or by a configureConnection whose connect()
\* resolved; 0 when there is none
RECURSIVE LastSet(_)
LastSet(n) ==
  IF n = 0 THEN 0
  ELSE IF events[n][1] \in {"setConnection", "connect resolved"}
       THEN events[n][2]
       ELSE LastSet(n - 1)

\* C30: the global connection is always the one most recently set by
\* setConnection or by a configureConnection that connected, and none
\* before the first; a configureConnection that is still connecting or
\* has failed changes nothing; getConnection throws the not-configured
\* error exactly when there is none and otherwise returns that one.
C30_MostRecentlySet ==
  comp = "global" =>
    /\ globalConnection = LastSet(Len(events))
    /\ lastCall.op = "getConnection" =>
         IF LastSet(lastCall.at) = 0
         THEN lastCall.error = ErrNoConnection /\ lastCall.conn = 0
         ELSE lastCall.error = NoError /\ lastCall.conn = LastSet(lastCall.at)

\* getConnection returned a connection set by setConnection although a
\* configureConnection had failed after that call and another was pending
C30_Witness ==
  /\ comp = "global"
  /\ lastCall.op = "getConnection" /\ lastCall.conn = 1
  /\ lastCall.at = Len(events)
  /\ \E i, j \in 1..Len(events) :
       /\ i < j
       /\ events[i] = <<"setConnection", 1>>
       /\ events[j][1] = "connect rejected"
  /\ pending # {}

====
